---------------------------- MODULE Spec2Model ----------------------------
(***************************************************************************)
(* A model of the expression resolver: the AST node classes of             *)
(* src/src/abstract_syntax_tree.ts (resolve and freeVariables) and the     *)
(* parser of src/src/parser.ts.                                            *)
(*                                                                         *)
(* Values are JavaScript values.  A number is a record n/d: a finite       *)
(* non-zero number has d > 0 and n, d coprime; +0 is 0/1, -0 is 0/-1,      *)
(* +Infinity is 1/0, -Infinity is -1/0 and NaN is 0/0.  A string is a      *)
(* sequence of one-character strings.                                      *)
(***************************************************************************)
EXTENDS Integers, Sequences, FiniteSets, TLC

VARIABLES expr, environment, before, op, outcome, input

vars == <<expr, environment, before, op, outcome, input>>

(***************************************************************************)
(* Bounds of the model.                                                    *)
(***************************************************************************)
\* Number literals and numbers bound in an environment range over 0..MaxNum.
MaxNum == 1
MaxIndex == 4

(***************************************************************************)
(* ExpressionResult (abstract_syntax_tree.ts line 1), plus undefined, the  *)
(* value a property read yields for a key that is not there.               *)
(***************************************************************************)
Num(n, d) == [tag |-> "number", n |-> n, d |-> d]
Bool(b) == [tag |-> "boolean", bool |-> b]
Str(s) == [tag |-> "string", chars |-> s]
Null == [tag |-> "null"]
Undefined == [tag |-> "undefined"]
Fn(name) == [tag |-> "function", name |-> name]
\* An array, by its elements.  The model never compares two arrays, so it keeps
\* no identity for them.
Lst(items) == [tag |-> "list", items |-> items]

NaN == Num(0, 0)
PosZero == Num(0, 1)
NegZero == Num(0, -1)
Infinity(s) == Num(s, 0)
Zero(s) == Num(0, s)

Abs(i) == IF i < 0 THEN -i ELSE i

RECURSIVE Gcd(_, _)
Gcd(a, b) == IF b = 0 THEN a ELSE Gcd(b, a % b)

\* The finite non-zero number n/d (d # 0), in lowest terms with d > 0.
Rat(n, d) ==
    LET g == Gcd(Abs(n), Abs(d))
        s == IF d < 0 THEN -1 ELSE 1
    IN  Num((s * n) \div g, Abs(d) \div g)

IntNum(i) == IF i = 0 THEN PosZero ELSE Num(i, 1)

IsNaN(v) == v.n = 0 /\ v.d = 0
IsInf(v) == v.n # 0 /\ v.d = 0
IsZero(v) == v.n = 0 /\ v.d # 0
IsFinite(v) == v.d # 0
IsInteger(v) == v.d \in {1, -1}
Sgn(v) == IF v.n > 0 THEN 1 ELSE IF v.n < 0 THEN -1 ELSE v.d

\* IEEE 754 arithmetic on the numbers above (exact: no rounding occurs on the
\* small values of the model).
NumNeg(a) ==
    IF IsNaN(a) THEN NaN
    ELSE IF IsZero(a) THEN Zero(-a.d)
    ELSE Num(-a.n, a.d)

NumAdd(a, b) ==
    IF IsNaN(a) \/ IsNaN(b) THEN NaN
    ELSE IF IsInf(a) /\ IsInf(b) THEN (IF a.n = b.n THEN a ELSE NaN)
    ELSE IF IsInf(a) THEN a
    ELSE IF IsInf(b) THEN b
    ELSE LET n == a.n * Abs(b.d) + b.n * Abs(a.d)
             d == Abs(a.d) * Abs(b.d)
         IN  IF n = 0
             THEN (IF IsZero(a) /\ IsZero(b) /\ a.d = -1 /\ b.d = -1
                   THEN NegZero ELSE PosZero)
             ELSE Rat(n, d)

NumSub(a, b) == NumAdd(a, NumNeg(b))

NumMul(a, b) ==
    IF IsNaN(a) \/ IsNaN(b) THEN NaN
    ELSE IF (IsInf(a) /\ IsZero(b)) \/ (IsZero(a) /\ IsInf(b)) THEN NaN
    ELSE IF IsInf(a) \/ IsInf(b) THEN Infinity(Sgn(a) * Sgn(b))
    ELSE IF IsZero(a) \/ IsZero(b) THEN Zero(Sgn(a) * Sgn(b))
    ELSE Rat(a.n * b.n, a.d * b.d)

NumDiv(a, b) ==
    IF IsNaN(a) \/ IsNaN(b) THEN NaN
    ELSE IF (IsInf(a) /\ IsInf(b)) \/ (IsZero(a) /\ IsZero(b)) THEN NaN
    ELSE IF IsInf(a) \/ IsZero(b) THEN Infinity(Sgn(a) * Sgn(b))
    ELSE IF IsInf(b) \/ IsZero(a) THEN Zero(Sgn(a) * Sgn(b))
    ELSE Rat(a.n * b.d, a.d * b.n)

\* The % operator: the remainder has the sign of the dividend.
NumMod(a, b) ==
    IF IsNaN(a) \/ IsNaN(b) \/ IsInf(a) \/ IsZero(b) THEN NaN
    ELSE IF IsInf(b) \/ IsZero(a) THEN a
    ELSE LET q == Abs(a.n * b.d) \div Abs(a.d * b.n)
             n == Abs(a.n) * b.d - q * Abs(b.n) * a.d
         IN  IF n = 0 THEN Zero(Sgn(a)) ELSE Rat(Sgn(a) * n, a.d * b.d)

\* a < b on numbers: "true", "false", or "undefined" when an operand is NaN.
NumLess(a, b) ==
    IF IsNaN(a) \/ IsNaN(b) THEN "undefined"
    ELSE IF IsInf(a) \/ IsInf(b)
         THEN (IF a = b THEN "false"
               ELSE IF a = Infinity(1) \/ b = Infinity(-1) THEN "false"
               ELSE "true")
    ELSE IF a.n * Abs(b.d) < b.n * Abs(a.d) THEN "true" ELSE "false"

RECURSIVE IntPow(_, _)
IntPow(b, e) == IF e = 0 THEN 1 ELSE b * IntPow(b, e - 1)

IsOddInteger(v) == IsInteger(v) /\ v.n % 2 = 1

\* Math.pow.  A finite non-integer exponent on a positive base other than 1 is
\* outside the values of the model: no case covers it.
NumPow(a, b) ==
    CASE IsNaN(b) -> NaN
      [] IsZero(b) -> IntNum(1)
      [] ~IsZero(b) /\ ~IsNaN(b) /\ IsNaN(a) -> NaN
      [] IsInf(b) /\ ~IsNaN(a) ->
            LET absA == IF IsZero(a) THEN PosZero ELSE Num(Abs(a.n), a.d)
                m == NumLess(IntNum(1), absA)
                one == IsFinite(a) /\ Abs(a.n) = 1 /\ a.d = 1
            IN  IF one THEN NaN
                ELSE IF (m = "true") = (b.n > 0) THEN Infinity(1) ELSE PosZero
      [] IsFinite(b) /\ ~IsZero(b) /\ IsInf(a) ->
            LET neg == a.n < 0 /\ IsOddInteger(b)
            IN  IF b.n > 0 THEN Infinity(IF neg THEN -1 ELSE 1)
                ELSE Zero(IF neg THEN -1 ELSE 1)
      [] IsFinite(b) /\ ~IsZero(b) /\ IsZero(a) ->
            LET neg == a.d < 0 /\ IsOddInteger(b)
            IN  IF b.n > 0 THEN Zero(IF neg THEN -1 ELSE 1)
                ELSE Infinity(IF neg THEN -1 ELSE 1)
      [] IsFinite(b) /\ ~IsZero(b) /\ IsFinite(a) /\ ~IsZero(a) /\ IsInteger(b) ->
            IF b.n > 0 THEN Rat(IntPow(a.n, b.n), IntPow(a.d, b.n))
            ELSE Rat(IntPow(a.d, -b.n), IntPow(a.n, -b.n))
      [] IsFinite(b) /\ ~IsInteger(b) /\ IsFinite(a) /\ a.n < 0 -> NaN
      [] IsFinite(b) /\ ~IsInteger(b) /\ a = IntNum(1) -> IntNum(1)


(***************************************************************************)
(* The conversions JavaScript applies to the operands of its operators.    *)
(***************************************************************************)
Digits == <<"0", "1", "2", "3", "4", "5", "6", "7", "8", "9">>
DigitSet == {Digits[i] : i \in DOMAIN Digits}
DigitValue(c) == (CHOOSE i \in DOMAIN Digits : Digits[i] = c) - 1
WhiteSpace == {" ", "\t", "\n", "\r"}
\* Letters that make a digit string an exponent or radix literal ("1e3", "0x1f").
RadixLetters == {"e", "E", "x", "X", "o", "O", "b", "B", "_"}

RECURSIVE NatToChars(_)
NatToChars(i) ==
    IF i < 10 THEN <<Digits[i + 1]>>
    ELSE NatToChars(i \div 10) \o <<Digits[(i % 10) + 1]>>

RECURSIVE CharsToNat(_)
CharsToNat(s) ==
    IF s = <<>> THEN 0
    ELSE 10 * CharsToNat(SubSeq(s, 1, Len(s) - 1)) + DigitValue(s[Len(s)])

RECURSIVE TrimLeft(_)
TrimLeft(s) ==
    IF s # <<>> /\ Head(s) \in WhiteSpace THEN TrimLeft(Tail(s)) ELSE s

RECURSIVE TrimRight(_)
TrimRight(s) ==
    IF s # <<>> /\ s[Len(s)] \in WhiteSpace
    THEN TrimRight(SubSeq(s, 1, Len(s) - 1)) ELSE s

AllDigits(s) == \A i \in DOMAIN s : s[i] \in DigitSet

InfinityChars == <<"I", "n", "f", "i", "n", "i", "t", "y">>
NaNChars == <<"N", "a", "N">>

\* Number.prototype.toString of an integer, of NaN and of the infinities (the
\* only numbers the model converts to a string).
NumberToChars(v) ==
    CASE IsNaN(v) -> NaNChars
      [] IsInf(v) -> (IF v.n < 0 THEN <<"-">> ELSE <<>>) \o InfinityChars
      [] IsZero(v) -> <<"0">>
      [] IsFinite(v) /\ ~IsZero(v) /\ v.d = 1 ->
            (IF v.n < 0 THEN <<"-">> ELSE <<>>) \o NatToChars(Abs(v.n))

\* An unsigned decimal literal: digits, digits.digits, .digits, digits.
UnsignedToNumber(s) ==
    LET dots == {i \in DOMAIN s : s[i] = "."}
    IN  IF s = InfinityChars THEN Infinity(1)
        ELSE IF dots = {}
        THEN (IF s # <<>> /\ AllDigits(s) THEN IntNum(CharsToNat(s)) ELSE NaN)
        ELSE LET i == CHOOSE j \in dots : TRUE
                 whole == SubSeq(s, 1, i - 1)
                 frac == SubSeq(s, i + 1, Len(s))
             IN  IF Cardinality(dots) = 1 /\ AllDigits(whole) /\ AllDigits(frac)
                    /\ Len(whole) + Len(frac) > 0
                 THEN (IF CharsToNat(whole \o frac) = 0 THEN PosZero
                       ELSE Rat(CharsToNat(whole \o frac), IntPow(10, Len(frac))))
                 ELSE NaN

\* ToNumber of a string.  Exponent and radix literals are outside the strings
\* of the model: no case covers them.
StringToNumber(s) ==
    LET t == TrimRight(TrimLeft(s))
        literal == (\E i \in DOMAIN t : t[i] \in DigitSet)
                   /\ (\E i \in DOMAIN t : t[i] \in RadixLetters)
    IN  CASE t = <<>> -> PosZero
          [] t # <<>> /\ ~literal /\ Head(t) = "-" -> NumNeg(UnsignedToNumber(Tail(t)))
          [] t # <<>> /\ ~literal /\ Head(t) = "+" -> UnsignedToNumber(Tail(t))
          [] t # <<>> /\ ~literal /\ Head(t) \notin {"+", "-"} -> UnsignedToNumber(t)

\* Function.prototype.toString of a native function.
FunctionToChars(f) ==
    <<"f", "u", "n", "c", "t", "i", "o", "n", " ">> \o f.name
        \o <<"(", ")", " ", "{", " ", "[", "n", "a", "t", "i", "v", "e", " ",
             "c", "o", "d", "e", "]", " ", "}">>

\* ToString.  An array is its elements joined by commas, null and undefined
\* elements being empty.
RECURSIVE ToChars(_)
ToChars(v) ==
    CASE v.tag = "string" -> v.chars
      [] v.tag = "number" -> NumberToChars(v)
      [] v.tag = "boolean" -> IF v.bool THEN <<"t", "r", "u", "e">>
                              ELSE <<"f", "a", "l", "s", "e">>
      [] v.tag = "null" -> <<"n", "u", "l", "l">>
      [] v.tag = "undefined" -> <<"u", "n", "d", "e", "f", "i", "n", "e", "d">>
      [] v.tag = "function" -> FunctionToChars(v)
      [] v.tag = "list" ->
            LET element(x) == IF x.tag \in {"null", "undefined"} THEN <<>>
                              ELSE ToChars(x)
            IN  IF v.items = <<>> THEN <<>>
                ELSE IF Len(v.items) = 1 THEN element(v.items[1])
                ELSE element(v.items[1]) \o <<",">> \o ToChars(Lst(Tail(v.items)))

\* ToPrimitive: a function converts to its source text and an array to its
\* string, every other value of the model is a primitive already.
ToPrimitive(v) == IF v.tag \in {"function", "list"} THEN Str(ToChars(v)) ELSE v

ToNumber(v) ==
    CASE v.tag = "number" -> v
      [] v.tag = "boolean" -> IF v.bool THEN IntNum(1) ELSE PosZero
      [] v.tag = "null" -> PosZero
      [] v.tag = "undefined" -> NaN
      [] v.tag = "string" -> StringToNumber(v.chars)
      [] v.tag \in {"function", "list"} -> StringToNumber(ToChars(v))

\* ToBoolean: false, +0, -0, NaN, "", null and undefined are falsy.
ToBoolean(v) ==
    CASE v.tag = "boolean" -> v.bool
      [] v.tag = "number" -> ~(IsZero(v) \/ IsNaN(v))
      [] v.tag = "string" -> v.chars # <<>>
      [] v.tag \in {"null", "undefined"} -> FALSE
      [] v.tag \in {"function", "list"} -> TRUE

\* Code units of the characters the model's strings are made of, in order.
CodeOrder ==
    <<"\t", "\n", "\r", " ", "(", ")", "+", ",", "-", ".",
      "0", "1", "2", "3", "4", "5", "6", "7", "8", "9",
      "I", "N", "S", "U", "[", "]", "a", "b", "c", "d", "e", "f", "g", "i", "j",
      "l", "n", "o", "r", "s", "t", "u", "v", "x", "y", "{", "}">>
CodeUnit(c) == CHOOSE i \in DOMAIN CodeOrder : CodeOrder[i] = c

RECURSIVE CharsLess(_, _)
CharsLess(s, t) ==
    IF t = <<>> THEN FALSE
    ELSE IF s = <<>> THEN TRUE
    ELSE IF Head(s) = Head(t) THEN CharsLess(Tail(s), Tail(t))
    ELSE CodeUnit(Head(s)) < CodeUnit(Head(t))

\* The abstract relational comparison a < b: "true", "false" or "undefined".
Less(a, b) ==
    LET pa == ToPrimitive(a)
        pb == ToPrimitive(b)
    IN  IF pa.tag = "string" /\ pb.tag = "string"
        THEN (IF CharsLess(pa.chars, pb.chars) THEN "true" ELSE "false")
        ELSE NumLess(ToNumber(pa), ToNumber(pb))

\* The operators of the language on two values.
JsAdd(a, b) ==
    LET pa == ToPrimitive(a)
        pb == ToPrimitive(b)
    IN  IF pa.tag = "string" \/ pb.tag = "string"
        THEN Str(ToChars(pa) \o ToChars(pb))
        ELSE NumAdd(ToNumber(pa), ToNumber(pb))
JsSub(a, b) == NumSub(ToNumber(a), ToNumber(b))
JsMul(a, b) == NumMul(ToNumber(a), ToNumber(b))
JsDiv(a, b) == NumDiv(ToNumber(a), ToNumber(b))
JsMod(a, b) == NumMod(ToNumber(a), ToNumber(b))
JsPow(a, b) == NumPow(ToNumber(a), ToNumber(b))
JsNeg(a) == NumNeg(ToNumber(a))
JsNot(a) == Bool(~ToBoolean(a))
JsLess(a, b) == Bool(Less(a, b) = "true")
JsGreater(a, b) == Bool(Less(b, a) = "true")
JsLessEq(a, b) == Bool(Less(b, a) = "false")
JsGreaterEq(a, b) == Bool(Less(a, b) = "false")
\* a === b: NaN equals nothing, +0 equals -0.
JsStrictEquals(a, b) ==
    IF a.tag # b.tag THEN Bool(FALSE)
    ELSE CASE a.tag = "number" ->
                Bool(~IsNaN(a) /\ ~IsNaN(b) /\ (a = b \/ (IsZero(a) /\ IsZero(b))))
           [] a.tag \notin {"number", "list"} -> Bool(a = b)
JsAnd(a, b) == IF ToBoolean(a) THEN b ELSE a


(***************************************************************************)
(* The AST node classes.  A node is a record whose kind is the class name  *)
(* and whose other fields are the fields of the class.                     *)
(***************************************************************************)
Number(number) == [kind |-> "Number", number |-> number]
Boolean(bool) == [kind |-> "Boolean", bool |-> bool]
String(string) == [kind |-> "String", string |-> string]
Variable(variable) == [kind |-> "Variable", variable |-> variable]
UnaryOperator(kind, expression) == [kind |-> kind, expression |-> expression]
BinaryOperator(kind, left, right) ==
    [kind |-> kind, left_expression |-> left, right_expression |-> right]
Condition(condition, a, b) ==
    [kind |-> "Condition", condition |-> condition, a |-> a, b |-> b]

UnaryKinds == {"Negate", "Factorial", "Not"}
ArithmeticKinds ==
    {"Addition", "Subtraction", "Multiply", "Divide", "Modulo", "Exponentiate"}
ComparisonKinds ==
    {"Equality", "InEquality", "LessThen", "GreaterThen", "LessThenEq",
     "GreaterThenEq"}
LogicalKinds == {"And", "Or"}
BinaryKinds ==
    ArithmeticKinds \cup ComparisonKinds \cup LogicalKinds \cup {"Assignment"}

(***************************************************************************)
(* The environment: a plain object, as the callers create it ({} in        *)
(* parser.test.ts).  Its own properties are a function from names to       *)
(* values; a read of a name it does not own goes on to Object.prototype.   *)
(***************************************************************************)
ToStringName == <<"t", "o", "S", "t", "r", "i", "n", "g">>
ValueOfName == <<"v", "a", "l", "u", "e", "O", "f">>
MathSqrtName == <<"m", "a", "t", "h", ".", "s", "q", "r", "t">>
ObjectPrototype ==
    [k \in {ToStringName, ValueOfName} |-> Fn(k)]

EmptyEnvironment == [k \in {} |-> Null]

\* environment[key]
Get(env, key) ==
    IF key \in DOMAIN env THEN env[key]
    ELSE IF key \in DOMAIN ObjectPrototype THEN ObjectPrototype[key]
    ELSE Undefined

\* environment[key] = value
Put(env, key, value) ==
    [k \in DOMAIN env \cup {key} |-> IF k = key THEN value ELSE env[k]]

\* environment.hasOwnProperty(key)
HasOwnProperty(env, key) == key \in DOMAIN env

\* keys.forEach(key => { environment[key] = value })
RECURSIVE PutAll(_, _, _)
PutAll(env, keys, value) ==
    IF keys = {} THEN env
    ELSE LET k == CHOOSE x \in keys : TRUE
         IN  PutAll(Put(env, k, value), keys \ {k}, value)

(***************************************************************************)
(* resolve.  resolve(e, env, path) is the outcome of e.resolve(env) for    *)
(* the node e found at path in the expression being resolved: the          *)
(* environment afterwards, whether the call threw, the value returned or   *)
(* the error thrown, and the paths of the nodes whose resolve was called,  *)
(* in call order.                                                          *)
(***************************************************************************)
Return(env, value, visited) ==
    [environment |-> env, threw |-> FALSE, value |-> value, error |-> "none",
     visited |-> visited]
Throw(env, error, visited) ==
    [environment |-> env, threw |-> TRUE, value |-> Undefined, error |-> error,
     visited |-> visited]

\* The errors the code throws, by the message of each.
VariableNotDefined == "Variable not defined"
LeftSideMustBeVariable == "Left side of assignment must be a variable"
FactorialNotDefined == "Factorial is not defined"
\* Not an error the code throws: the loop of Factorial.resolve does not end.
DoesNotTerminate == "does not terminate"
NotAnArray == "Trying to index a value which is not an array"
IndexNotNumber == "Index is not a number"
FromIndexNotNumber == "From index is not a number"
ToIndexNotNumber == "To index is not a number"
NotAFunction == "Trying to call a value which is not a function"
\* Thrown by a callee, not by the code: Object.prototype.valueOf called with no
\* receiver.
CannotConvertToObject == "TypeError: Cannot convert undefined or null to object"

RECURSIVE resolve(_, _, _)

\* this.left_expression.resolve(environment) <operator>
\* this.right_expression.resolve(environment): both operands, left first.
BothOperands(e, env, path, Operator(_, _)) ==
    LET l == resolve(e.left_expression, env, path \o <<1>>)
        r == resolve(e.right_expression, l.environment, path \o <<2>>)
    IN  IF l.threw THEN Throw(l.environment, l.error, <<path>> \o l.visited)
        ELSE IF r.threw
        THEN Throw(r.environment, r.error, <<path>> \o l.visited \o r.visited)
        ELSE Return(r.environment, Operator(l.value, r.value),
                    <<path>> \o l.visited \o r.visited)

OneOperand(e, env, path, Operator(_)) ==
    LET x == resolve(e.expression, env, path \o <<1>>)
    IN  IF x.threw THEN Throw(x.environment, x.error, <<path>> \o x.visited)
        ELSE Return(x.environment, Operator(x.value), <<path>> \o x.visited)

Negate_resolve(e, env, path) == OneOperand(e, env, path, JsNeg)

RECURSIVE FactorialLoop(_, _, _)
FactorialLoop(i, factorial, value) ==
    IF JsLessEq(IntNum(i), value).bool
    THEN FactorialLoop(i + 1, NumMul(factorial, IntNum(i)), value)
    ELSE factorial

Factorial_resolve(e, env, path) ==
    LET x == resolve(e.expression, env, path \o <<1>>)
    IN  IF x.threw THEN Throw(x.environment, x.error, <<path>> \o x.visited)
        ELSE IF JsLess(x.value, PosZero).bool
        THEN Throw(x.environment, FactorialNotDefined, <<path>> \o x.visited)
        ELSE IF ToNumber(ToPrimitive(x.value)) = Infinity(1)
        THEN Throw(x.environment, DoesNotTerminate, <<path>> \o x.visited)
        ELSE Return(x.environment, FactorialLoop(2, IntNum(1), x.value),
                    <<path>> \o x.visited)

Not_resolve(e, env, path) == OneOperand(e, env, path, JsNot)

\* Mutant of And_resolve: both operands are always resolved.
And_resolve_Eager(e, env, path) == BothOperands(e, env, path, JsAnd)

\* left && right: the right operand is resolved only when the left value is
\* truthy, and the value is the left value otherwise.
And_resolve(e, env, path) ==
    LET l == resolve(e.left_expression, env, path \o <<1>>)
        r == resolve(e.right_expression, l.environment, path \o <<2>>)
    IN  IF l.threw THEN Throw(l.environment, l.error, <<path>> \o l.visited)
        ELSE IF ~ToBoolean(l.value)
        THEN Return(l.environment, l.value, <<path>> \o l.visited)
        ELSE IF r.threw
        THEN Throw(r.environment, r.error, <<path>> \o l.visited \o r.visited)
        ELSE Return(r.environment, r.value, <<path>> \o l.visited \o r.visited)

\* left || right: the right operand is resolved only when the left value is
\* falsy, and the value is the left value otherwise.
Or_resolve(e, env, path) ==
    LET l == resolve(e.left_expression, env, path \o <<1>>)
        r == resolve(e.right_expression, l.environment, path \o <<2>>)
    IN  IF l.threw THEN Throw(l.environment, l.error, <<path>> \o l.visited)
        ELSE IF ToBoolean(l.value)
        THEN Return(l.environment, l.value, <<path>> \o l.visited)
        ELSE IF r.threw
        THEN Throw(r.environment, r.error, <<path>> \o l.visited \o r.visited)
        ELSE Return(r.environment, r.value, <<path>> \o l.visited \o r.visited)

\* new Set(environment.hasOwnProperty(this.variable) ? [] : [this.variable])
Variable_freeVariables(e, env) ==
    [environment |-> env, threw |-> FALSE, error |-> "none",
     free |-> IF HasOwnProperty(env, e.variable) THEN {} ELSE {e.variable}]

\* Mutant of Assignment_resolve: the value is returned and not stored.
Assignment_resolve_NoWrite(e, env, path) ==
    IF e.left_expression.kind # "Variable"
    THEN Throw(env, LeftSideMustBeVariable, <<path>>)
    ELSE LET r == resolve(e.right_expression, env, path \o <<2>>)
         IN  IF r.threw THEN Throw(r.environment, r.error, <<path>> \o r.visited)
             ELSE Return(r.environment, r.value, <<path>> \o r.visited)

Assignment_resolve(e, env, path) ==
    IF e.left_expression.kind # "Variable"
    THEN Throw(env, LeftSideMustBeVariable, <<path>>)
    ELSE LET r == resolve(e.right_expression, env, path \o <<2>>)
             targets == Variable_freeVariables(e.left_expression,
                                               EmptyEnvironment).free
         IN  IF r.threw THEN Throw(r.environment, r.error, <<path>> \o r.visited)
             ELSE Return(PutAll(r.environment, targets, r.value), r.value,
                         <<path>> \o r.visited)

\* Mutant of Addition_resolve: a failure restores the environment the call
\* started with.
Addition_resolve_RollingBack(e, env, path) ==
    LET sum == BothOperands(e, env, path, JsAdd)
    IN  IF sum.threw THEN [sum EXCEPT !.environment = env] ELSE sum

Addition_resolve(e, env, path) == BothOperands(e, env, path, JsAdd)
Subtraction_resolve(e, env, path) == BothOperands(e, env, path, JsSub)
Equality_resolve(e, env, path) == BothOperands(e, env, path, JsStrictEquals)
\* Mutant of InEquality_resolve: l !== r.
JsStrictNotEquals(a, b) == Bool(~JsStrictEquals(a, b).bool)
InEquality_resolve_Negated(e, env, path) ==
    BothOperands(e, env, path, JsStrictNotEquals)
InEquality_resolve(e, env, path) == BothOperands(e, env, path, JsStrictEquals)
LessThen_resolve(e, env, path) == BothOperands(e, env, path, JsLess)
GreaterThen_resolve(e, env, path) == BothOperands(e, env, path, JsGreater)
LessThenEq_resolve(e, env, path) == BothOperands(e, env, path, JsLessEq)
GreaterThenEq_resolve(e, env, path) == BothOperands(e, env, path, JsGreaterEq)
Exponentiate_resolve(e, env, path) == BothOperands(e, env, path, JsPow)
Multiply_resolve(e, env, path) == BothOperands(e, env, path, JsMul)
Divide_resolve(e, env, path) == BothOperands(e, env, path, JsDiv)
Modulo_resolve(e, env, path) == BothOperands(e, env, path, JsMod)

\* Mutant of Condition_resolve: both branches are resolved, then one is picked.
Condition_resolve_BothBranches(e, env, path) ==
    LET c == resolve(e.condition, env, path \o <<1>>)
        a == resolve(e.a, c.environment, path \o <<2>>)
        b == resolve(e.b, a.environment, path \o <<3>>)
        visited == <<path>> \o c.visited \o a.visited \o b.visited
    IN  IF c.threw THEN Throw(c.environment, c.error, <<path>> \o c.visited)
        ELSE IF a.threw THEN Throw(a.environment, a.error, <<path>> \o c.visited \o a.visited)
        ELSE IF b.threw THEN Throw(b.environment, b.error, visited)
        ELSE Return(b.environment, IF ToBoolean(c.value) THEN a.value ELSE b.value,
                    visited)

\* if (condition) a else b: the condition, then the branch its truthiness picks.
Condition_resolve(e, env, path) ==
    LET c == resolve(e.condition, env, path \o <<1>>)
        a == resolve(e.a, c.environment, path \o <<2>>)
        b == resolve(e.b, c.environment, path \o <<3>>)
        taken == IF ToBoolean(c.value) THEN a ELSE b
    IN  IF c.threw THEN Throw(c.environment, c.error, <<path>> \o c.visited)
        ELSE [taken EXCEPT !.visited = <<path>> \o c.visited \o @]

Number_resolve(e, env, path) == Return(env, e.number, <<path>>)
Boolean_resolve(e, env, path) == Return(env, Bool(e.bool), <<path>>)
String_resolve(e, env, path) == Return(env, Str(e.string), <<path>>)

\* Mutant of Variable_resolve: a missing name is bound to null on first use.
Variable_resolve_Defaulting(e, env, path) ==
    LET value == Get(env, e.variable)
    IN  IF value.tag = "undefined"
        THEN Return(Put(env, e.variable, Null), Null, <<path>>)
        ELSE Return(env, value, <<path>>)

Variable_resolve(e, env, path) ==
    LET value == Get(env, e.variable)
    IN  IF value.tag = "undefined" THEN Throw(env, VariableNotDefined, <<path>>)
        ELSE Return(env, value, <<path>>)

\* list[index] for a number index: the element when the index is an integer
\* of 0 .. length - 1, undefined for every other number.
Index_resolve(e, env, path) ==
    LET list == resolve(e.list, env, path \o <<1>>)
        index == resolve(e.index, list.environment, path \o <<2>>)
        i == index.value
    IN  IF list.threw THEN Throw(list.environment, list.error, <<path>> \o list.visited)
        ELSE IF list.value.tag # "list"
        THEN Throw(list.environment, NotAnArray, <<path>> \o list.visited)
        ELSE IF index.threw
        THEN Throw(index.environment, index.error,
                   <<path>> \o list.visited \o index.visited)
        ELSE IF i.tag # "number"
        THEN Throw(index.environment, IndexNotNumber,
                   <<path>> \o list.visited \o index.visited)
        ELSE Return(index.environment,
                    IF IsZero(i) THEN
                        (IF list.value.items = <<>> THEN Undefined
                         ELSE list.value.items[1])
                    ELSE IF IsFinite(i) /\ i.d = 1 /\ i.n > 0
                            /\ i.n < Len(list.value.items)
                    THEN list.value.items[i.n + 1]
                    ELSE Undefined,
                    <<path>> \o list.visited \o index.visited)

\* Mutant of RelativeIndex: a negative bound is the start of the array.
RelativeIndex_Clamped(v, length) ==
    CASE IsNaN(v) \/ IsZero(v) -> 0
      [] IsInf(v) -> IF v.n < 0 THEN 0 ELSE length
      [] IsFinite(v) /\ ~IsZero(v) ->
            LET integer == Abs(v.n) \div v.d
            IN  IF v.n < 0 THEN 0
                ELSE (IF integer > length THEN length ELSE integer)

\* The position Array.prototype.slice makes of a bound: the bound truncated to
\* an integer (NaN is 0), counted from the end when negative, and kept within
\* 0 .. length.
RelativeIndex(v, length) ==
    CASE IsNaN(v) \/ IsZero(v) -> 0
      [] IsInf(v) -> IF v.n < 0 THEN 0 ELSE length
      [] IsFinite(v) /\ ~IsZero(v) ->
            LET integer == Abs(v.n) \div v.d
            IN  IF v.n < 0
                THEN (IF length - integer < 0 THEN 0 ELSE length - integer)
                ELSE (IF integer > length THEN length ELSE integer)

\* list.slice(from_index, to_index)
JsSlice(list, from_index, to_index) ==
    LET k == RelativeIndex(from_index, Len(list.items))
        final == RelativeIndex(to_index, Len(list.items))
    IN  Lst(SubSeq(list.items, k + 1, final))

Slice_resolve(e, env, path) ==
    LET list == resolve(e.list, env, path \o <<1>>)
        from_index == resolve(e.from_index, list.environment, path \o <<2>>)
        to_index == resolve(e.to_index, from_index.environment, path \o <<3>>)
        upto_from == <<path>> \o list.visited \o from_index.visited
    IN  IF list.threw THEN Throw(list.environment, list.error, <<path>> \o list.visited)
        ELSE IF list.value.tag # "list"
        THEN Throw(list.environment, NotAnArray, <<path>> \o list.visited)
        ELSE IF from_index.threw
        THEN Throw(from_index.environment, from_index.error, upto_from)
        ELSE IF from_index.value.tag # "number"
        THEN Throw(from_index.environment, FromIndexNotNumber, upto_from)
        ELSE IF to_index.threw
        THEN Throw(to_index.environment, to_index.error,
                   upto_from \o to_index.visited)
        ELSE IF to_index.value.tag # "number"
        THEN Throw(to_index.environment, ToIndexNotNumber,
                   upto_from \o to_index.visited)
        ELSE Return(to_index.environment,
                    JsSlice(list.value, from_index.value, to_index.value),
                    upto_from \o to_index.visited)

\* Mutant of ResolveAll: every element is resolved against a copy of the
\* environment the first one saw.
RECURSIVE ResolveAll_Unthreaded(_, _, _, _)
ResolveAll_Unthreaded(elements, env, path, first) ==
    IF elements = <<>> THEN Return(env, Lst(<<>>), <<>>)
    ELSE LET head == resolve(Head(elements), env, path \o <<first + 1>>)
             tail == ResolveAll_Unthreaded(Tail(elements), env, path, first + 1)
         IN  IF head.threw THEN head
             ELSE IF tail.threw
             THEN Throw(tail.environment, tail.error, head.visited \o tail.visited)
             ELSE Return(tail.environment,
                         Lst(<<head.value>> \o tail.value.items),
                         head.visited \o tail.visited)

\* elements.map(element => element.resolve(environment)): the elements in
\* order, stopping at the first that throws.  "value" is the array of the
\* values so far; the element at position k is the child first + k of the node.
RECURSIVE ResolveAll(_, _, _, _)
ResolveAll(elements, env, path, first) ==
    IF elements = <<>> THEN Return(env, Lst(<<>>), <<>>)
    ELSE LET head == resolve(Head(elements), env, path \o <<first + 1>>)
             tail == ResolveAll(Tail(elements), head.environment, path, first + 1)
         IN  IF head.threw THEN head
             ELSE IF tail.threw
             THEN Throw(tail.environment, tail.error, head.visited \o tail.visited)
             ELSE Return(tail.environment,
                         Lst(<<head.value>> \o tail.value.items),
                         head.visited \o tail.visited)

List_resolve(e, env, path) ==
    LET list == ResolveAll(e.list, env, path, 0)
    IN  [list EXCEPT !.visited = <<path>> \o @]

\* Math.sqrt, on the numbers whose root is a number of the model.
NumSqrt(v) ==
    CASE IsNaN(v) \/ (v.n < 0) -> NaN
      [] IsZero(v) \/ (IsInf(v) /\ v.n > 0) -> v
      [] IsFinite(v) /\ v.n > 0 /\ v.d = 1 /\ (\E r \in 1..v.n : r * r = v.n) ->
            IntNum(CHOOSE r \in 1..v.n : r * r = v.n)

\* fn(...args) for the functions the model's environments hold: Math.sqrt,
\* which the caller binds to math.sqrt, and the two functions every plain
\* object inherits, called here without a receiver.
Call(fn, args) ==
    CASE fn.name = MathSqrtName ->
            [threw |-> FALSE, error |-> "none",
             value |-> NumSqrt(ToNumber(IF args = <<>> THEN Undefined ELSE args[1]))]
      [] fn.name = ToStringName ->
            [threw |-> FALSE, error |-> "none",
             value |-> Str(<<"[", "o", "b", "j", "e", "c", "t", " ", "U", "n", "d",
                             "e", "f", "i", "n", "e", "d", "]">>)]
      [] fn.name = ValueOfName ->
            [threw |-> TRUE, error |-> CannotConvertToObject, value |-> Undefined]

Apply_resolve(e, env, path) ==
    LET fn == resolve(e.fn, env, path \o <<1>>)
        args == ResolveAll(e.args, fn.environment, path, 1)
        result == Call(fn.value, args.value.items)
        visited == <<path>> \o fn.visited \o args.visited
    IN  IF fn.threw THEN Throw(fn.environment, fn.error, <<path>> \o fn.visited)
        ELSE IF fn.value.tag # "function"
        THEN Throw(fn.environment, NotAFunction, <<path>> \o fn.visited)
        ELSE IF args.threw THEN Throw(args.environment, args.error, visited)
        ELSE IF result.threw THEN Throw(args.environment, result.error, visited)
        ELSE Return(args.environment, result.value, visited)

\* The dynamic dispatch of e.resolve(environment) on the class of e.
resolve(e, env, path) ==
    CASE e.kind = "Number" -> Number_resolve(e, env, path)
      [] e.kind = "Boolean" -> Boolean_resolve(e, env, path)
      [] e.kind = "String" -> String_resolve(e, env, path)
      [] e.kind = "Variable" -> Variable_resolve(e, env, path)
      [] e.kind = "Negate" -> Negate_resolve(e, env, path)
      [] e.kind = "Factorial" -> Factorial_resolve(e, env, path)
      [] e.kind = "Not" -> Not_resolve(e, env, path)
      [] e.kind = "And" -> And_resolve(e, env, path)
      [] e.kind = "Or" -> Or_resolve(e, env, path)
      [] e.kind = "Assignment" -> Assignment_resolve(e, env, path)
      [] e.kind = "Addition" -> Addition_resolve(e, env, path)
      [] e.kind = "Subtraction" -> Subtraction_resolve(e, env, path)
      [] e.kind = "Equality" -> Equality_resolve(e, env, path)
      [] e.kind = "InEquality" -> InEquality_resolve(e, env, path)
      [] e.kind = "LessThen" -> LessThen_resolve(e, env, path)
      [] e.kind = "GreaterThen" -> GreaterThen_resolve(e, env, path)
      [] e.kind = "LessThenEq" -> LessThenEq_resolve(e, env, path)
      [] e.kind = "GreaterThenEq" -> GreaterThenEq_resolve(e, env, path)
      [] e.kind = "Exponentiate" -> Exponentiate_resolve(e, env, path)
      [] e.kind = "Multiply" -> Multiply_resolve(e, env, path)
      [] e.kind = "Divide" -> Divide_resolve(e, env, path)
      [] e.kind = "Modulo" -> Modulo_resolve(e, env, path)
      [] e.kind = "Condition" -> Condition_resolve(e, env, path)
      [] e.kind = "Index" -> Index_resolve(e, env, path)
      [] e.kind = "Slice" -> Slice_resolve(e, env, path)
      [] e.kind = "List" -> List_resolve(e, env, path)
      [] e.kind = "Apply" -> Apply_resolve(e, env, path)

(***************************************************************************)
(* freeVariables.  freeVariables(e, env) is the outcome of                 *)
(* e.freeVariables(env): the environment afterwards (Assignment writes     *)
(* into it), whether the call threw, and the set returned.                 *)
(***************************************************************************)
FreeReturn(env, free) ==
    [environment |-> env, threw |-> FALSE, error |-> "none", free |-> free]
FreeThrow(env, error) ==
    [environment |-> env, threw |-> TRUE, error |-> error, free |-> {}]

RECURSIVE freeVariables(_, _)

UnaryOperator_freeVariables(e, env) == freeVariables(e.expression, env)

\* Mutant of BinaryOperator_freeVariables: the right operand is analysed against
\* the environment as it was before the left operand.
BinaryOperator_freeVariables_Unthreaded(e, env) ==
    LET l == freeVariables(e.left_expression, env)
        r == freeVariables(e.right_expression, env)
    IN  IF l.threw THEN l
        ELSE IF r.threw THEN r
        ELSE FreeReturn(r.environment, l.free \cup r.free)

BinaryOperator_freeVariables(e, env) ==
    LET l == freeVariables(e.left_expression, env)
        r == freeVariables(e.right_expression, l.environment)
    IN  IF l.threw THEN l
        ELSE IF r.threw THEN r
        ELSE FreeReturn(r.environment, l.free \cup r.free)

Assignment_freeVariables(e, env) ==
    IF e.left_expression.kind # "Variable"
    THEN FreeThrow(env, LeftSideMustBeVariable)
    ELSE LET targets == Variable_freeVariables(e.left_expression,
                                               EmptyEnvironment).free
         IN  freeVariables(e.right_expression, PutAll(env, targets, Null))

Condition_freeVariables(e, env) ==
    LET c == freeVariables(e.condition, env)
        a == freeVariables(e.a, c.environment)
        b == freeVariables(e.b, a.environment)
    IN  IF c.threw THEN c
        ELSE IF a.threw THEN a
        ELSE IF b.threw THEN b
        ELSE FreeReturn(b.environment, c.free \cup a.free \cup b.free)

Literal_freeVariables(e, env) == FreeReturn(env, {})

\* The union of the sets the expressions return, each analysed against the
\* environment the one before it left.
RECURSIVE FreeVariablesOfAll(_, _)
FreeVariablesOfAll(expressions, env) ==
    IF expressions = <<>> THEN FreeReturn(env, {})
    ELSE LET head == freeVariables(Head(expressions), env)
             tail == FreeVariablesOfAll(Tail(expressions), head.environment)
         IN  IF head.threw THEN head
             ELSE IF tail.threw THEN tail
             ELSE FreeReturn(tail.environment, head.free \cup tail.free)

Index_freeVariables(e, env) == FreeVariablesOfAll(<<e.list, e.index>>, env)
Slice_freeVariables(e, env) ==
    FreeVariablesOfAll(<<e.list, e.from_index, e.to_index>>, env)
List_freeVariables(e, env) == FreeVariablesOfAll(e.list, env)
Apply_freeVariables(e, env) == FreeVariablesOfAll(<<e.fn>> \o e.args, env)

\* The dynamic dispatch of e.freeVariables(environment) on the class of e.
freeVariables(e, env) ==
    CASE e.kind \in {"Number", "Boolean", "String"} -> Literal_freeVariables(e, env)
      [] e.kind = "Variable" -> Variable_freeVariables(e, env)
      [] e.kind \in UnaryKinds -> UnaryOperator_freeVariables(e, env)
      [] e.kind = "Assignment" -> Assignment_freeVariables(e, env)
      [] e.kind \in BinaryKinds \ {"Assignment"} -> BinaryOperator_freeVariables(e, env)
      [] e.kind = "Condition" -> Condition_freeVariables(e, env)
      [] e.kind = "Index" -> Index_freeVariables(e, env)
      [] e.kind = "Slice" -> Slice_freeVariables(e, env)
      [] e.kind = "List" -> List_freeVariables(e, env)
      [] e.kind = "Apply" -> Apply_freeVariables(e, env)


(***************************************************************************)
(* The parser (parser.ts).  A parser is applied to the input s at index i  *)
(* (the first character is at 1) and either fails or succeeds with a value *)
(* and the index after what it consumed.  The combinators are parsimmon's: *)
(* alt takes the first alternative that succeeds, from the same index;     *)
(* many and sepBy stop at the first failure and keep what succeeded.       *)
(***************************************************************************)
Index(list, index) == [kind |-> "Index", list |-> list, index |-> index]
Slice(list, from_index, to_index) ==
    [kind |-> "Slice", list |-> list, from_index |-> from_index,
     to_index |-> to_index]
List(list) == [kind |-> "List", list |-> list]
Apply(fn, args) == [kind |-> "Apply", fn |-> fn, args |-> args]

Success(value, index) == [ok |-> TRUE, value |-> value, index |-> index]
Failure == [ok |-> FALSE]

LowerCase ==
    {"a", "b", "c", "d", "e", "f", "g", "h", "i", "j", "k", "l", "m", "n", "o",
     "p", "q", "r", "s", "t", "u", "v", "w", "x", "y", "z"}
UpperCase ==
    {"A", "B", "C", "D", "E", "F", "G", "H", "I", "J", "K", "L", "M", "N", "O",
     "P", "Q", "R", "S", "T", "U", "V", "W", "X", "Y", "Z"}
\* [A-Za-z_] and [A-Za-z0-9_\.]
NameStart == LowerCase \cup UpperCase \cup {"_"}
NamePart == NameStart \cup DigitSet \cup {"."}

\* parsimmon.string(str)
StringAt(s, i, str) ==
    /\ i + Len(str) - 1 <= Len(s)
    /\ SubSeq(s, i, i + Len(str) - 1) = str

\* The index after the longest run of characters of a class that starts at i.
RECURSIVE RunEnd(_, _, _)
RunEnd(s, i, class) ==
    IF i <= Len(s) /\ s[i] \in class THEN RunEnd(s, i + 1, class) ELSE i

\* parsimmon.optWhitespace
OptWhitespace(s, i) == RunEnd(s, i, WhiteSpace)

\* parsimmon.string(str).trim(parsimmon.optWhitespace): the index after it, or 0.
TrimmedString(s, i, str) ==
    LET j == OptWhitespace(s, i)
    IN  IF StringAt(s, j, str) THEN OptWhitespace(s, j + Len(str)) ELSE 0

\* /([0-9]+\.[0-9]+)|([0-9]*\.[0-9]+)|([0-9]+\.[0-9]*)|([0-9]+)/, then parseFloat.
number_parser(s, i) ==
    LET whole == RunEnd(s, i, DigitSet)
        dot == whole <= Len(s) /\ s[whole] = "."
        frac == IF dot THEN RunEnd(s, whole + 1, DigitSet) ELSE whole
        end == IF dot /\ (frac > whole + 1 \/ whole > i) THEN frac
               ELSE IF whole > i THEN whole
               ELSE 0
    IN  IF end = 0 THEN Failure
        ELSE Success(Number(UnsignedToNumber(SubSeq(s, i, end - 1))), end)

bool_parser(s, i) ==
    IF StringAt(s, i, <<"T", "r", "u", "e">>) THEN Success(Boolean(TRUE), i + 4)
    ELSE IF StringAt(s, i, <<"F", "a", "l", "s", "e">>)
    THEN Success(Boolean(FALSE), i + 5)
    ELSE Failure

\* A quote, the characters up to the next quote of the same kind, that quote.
string_parser(s, i) ==
    IF i <= Len(s) /\ s[i] \in {"\"", "'"}
    THEN LET close == RunEnd(s, i + 1, {s[j] : j \in DOMAIN s} \ {s[i]})
         IN  IF close <= Len(s)
             THEN Success(String(SubSeq(s, i + 1, close - 1)), close + 1)
             ELSE Failure
    ELSE Failure

variable_parser(s, i) ==
    IF i <= Len(s) /\ s[i] \in NameStart
    THEN LET end == RunEnd(s, i + 1, NamePart)
         IN  Success(Variable(SubSeq(s, i, end - 1)), end)
    ELSE Failure

RECURSIVE expression_parser(_, _)

parens_parser(s, i) ==
    IF StringAt(s, i, <<"(">>)
    THEN LET e == expression_parser(s, i + 1)
         IN  IF e.ok /\ StringAt(s, e.index, <<")">>)
             THEN Success(e.value, e.index + 1)
             ELSE Failure
    ELSE Failure

\* variable_parser.or(parens_parser)
VariableOrParens(s, i) ==
    LET variable == variable_parser(s, i)
    IN  IF variable.ok THEN variable ELSE parens_parser(s, i)

\* expression_parser.trim(parsimmon.optWhitespace)
TrimmedExpression(s, i) ==
    LET e == expression_parser(s, OptWhitespace(s, i))
    IN  IF e.ok THEN Success(e.value, OptWhitespace(s, e.index)) ELSE Failure

\* Mutant of index_parser: the closing bracket may be missing.
index_parser_Unclosed(s, i) ==
    LET head == VariableOrParens(s, i)
        index == TrimmedExpression(s, head.index + 1)
    IN  IF head.ok /\ StringAt(s, head.index, <<"[">>) /\ index.ok
        THEN Success(Index(head.value, index.value),
                     IF StringAt(s, index.index, <<"]">>) THEN index.index + 1
                     ELSE index.index)
        ELSE Failure

index_parser(s, i) ==
    LET head == VariableOrParens(s, i)
        index == TrimmedExpression(s, head.index + 1)
    IN  IF head.ok /\ StringAt(s, head.index, <<"[">>) /\ index.ok
           /\ StringAt(s, index.index, <<"]">>)
        THEN Success(Index(head.value, index.value), index.index + 1)
        ELSE Failure

slice_parser(s, i) ==
    LET head == VariableOrParens(s, i)
        start == TrimmedExpression(s, head.index + 1)
        end == TrimmedExpression(s, start.index + 1)
    IN  IF head.ok /\ StringAt(s, head.index, <<"[">>) /\ start.ok
           /\ StringAt(s, start.index, <<":">>) /\ end.ok
           /\ StringAt(s, end.index, <<"]">>)
        THEN Success(Slice(head.value, start.value, end.value), end.index + 1)
        ELSE Failure

\* .many() of the separator followed by an expression: the elements so far and
\* the index after the last one that parsed.
RECURSIVE SepByRest(_, _, _)
SepByRest(s, elements, i) ==
    LET sep == TrimmedString(s, i, <<",">>)
        e == expression_parser(s, sep)
    IN  IF sep # 0 /\ e.ok THEN SepByRest(s, Append(elements, e.value), e.index)
        ELSE Success(elements, i)

\* expression_parser.sepBy(parsimmon.string(",").trim(parsimmon.optWhitespace))
SepBy(s, i) ==
    LET first == expression_parser(s, i)
    IN  IF first.ok THEN SepByRest(s, <<first.value>>, first.index)
        ELSE Success(<<>>, i)

list_parser(s, i) ==
    LET open == TrimmedString(s, i, <<"[">>)
        elements == SepBy(s, open)
        close == TrimmedString(s, elements.index, <<"]">>)
    IN  IF open # 0 /\ close # 0 THEN Success(List(elements.value), close)
        ELSE Failure

apply_parser(s, i) ==
    LET fn == VariableOrParens(s, i)
        args == SepBy(s, OptWhitespace(s, fn.index + 1))
        close == OptWhitespace(s, args.index)
    IN  IF fn.ok /\ StringAt(s, fn.index, <<"(">>) /\ StringAt(s, close, <<")">>)
        THEN Success(Apply(fn.value, args.value), close + 1)
        ELSE Failure

\* parsimmon.alt of the primaries, in the order of the source.
primary_parser(s, i) ==
    LET number == number_parser(s, i)
        bool == bool_parser(s, i)
        string == string_parser(s, i)
        list == list_parser(s, i)
        apply == apply_parser(s, i)
        index == index_parser(s, i)
        slice == slice_parser(s, i)
        parens == parens_parser(s, i)
    IN  IF number.ok THEN number
        ELSE IF bool.ok THEN bool
        ELSE IF string.ok THEN string
        ELSE IF list.ok THEN list
        ELSE IF apply.ok THEN apply
        ELSE IF index.ok THEN index
        ELSE IF slice.ok THEN slice
        ELSE IF parens.ok THEN parens
        ELSE variable_parser(s, i)

\* createOperatorParser: the first operator of the list, in order, found at i
\* after optional whitespace; its constructor and the index after the
\* whitespace that follows it.
RECURSIVE createOperatorParser(_, _, _)
createOperatorParser(operators, s, i) ==
    IF operators = <<>> THEN Failure
    ELSE LET end == TrimmedString(s, i, Head(operators).operator_str)
         IN  IF end # 0 THEN Success(Head(operators).constructor, end)
             ELSE createOperatorParser(Tail(operators), s, i)

OperatorEntry(operator_str, constructor) ==
    [operator_str |-> operator_str, constructor |-> constructor]

\* associativity_table: the layers, tightest first.  Layer 9 is the condition.
associativity_table ==
    << [parser |-> "rightAssociative",
        operators |-> <<OperatorEntry(<<"*", "*">>, "Exponentiate")>>],
       [parser |-> "unaryPreFix",
        operators |-> <<OperatorEntry(<<"-">>, "Negate")>>],
       [parser |-> "leftAssociative",
        operators |-> <<OperatorEntry(<<"*">>, "Multiply"),
                        OperatorEntry(<<"/">>, "Divide"),
                        OperatorEntry(<<"%">>, "Modulo")>>],
       [parser |-> "leftAssociative",
        operators |-> <<OperatorEntry(<<"+">>, "Addition"),
                        OperatorEntry(<<"-">>, "Subtraction")>>],
       [parser |-> "leftAssociative",
        operators |-> <<OperatorEntry(<<"=", "=">>, "Equality"),
                        OperatorEntry(<<"!", "=">>, "InEquality"),
                        OperatorEntry(<<"<", "=">>, "LessThenEq"),
                        OperatorEntry(<<">", "=">>, "GreaterThenEq"),
                        OperatorEntry(<<"<">>, "LessThen"),
                        OperatorEntry(<<">">>, "GreaterThen")>>],
       [parser |-> "unaryPreFix",
        operators |-> <<OperatorEntry(<<"n", "o", "t">>, "Not")>>],
       [parser |-> "leftAssociative",
        operators |-> <<OperatorEntry(<<"a", "n", "d">>, "And")>>],
       [parser |-> "leftAssociative",
        operators |-> <<OperatorEntry(<<"o", "r">>, "Or")>>],
       [parser |-> "condition", operators |-> <<>>],
       [parser |-> "rightAssociative",
        operators |-> <<OperatorEntry(<<":", "=">>, "Assignment")>>] >>

\* Layer(level, s, i): the parser of the level-th layer wrapped around the
\* layers below it; layer 0 is the primary parser.
RECURSIVE Layer(_, _, _)

unaryPreFixParser(level, operators, s, i) ==
    LET operator == createOperatorParser(operators, s, i)
        expression == Layer(level, s, operator.index)
    IN  IF operator.ok /\ expression.ok
        THEN Success(UnaryOperator(operator.value, expression.value),
                     expression.index)
        ELSE Layer(level - 1, s, i)

\* .many() of an operator followed by an operand, folded to the left.
RECURSIVE LeftFold(_, _, _, _, _)
LeftFold(level, operators, s, left_expression, i) ==
    LET operator == createOperatorParser(operators, s, i)
        right == Layer(level - 1, s, operator.index)
    IN  IF operator.ok /\ right.ok
        THEN LeftFold(level, operators, s,
                      BinaryOperator(operator.value, left_expression, right.value),
                      right.index)
        ELSE Success(left_expression, i)

\* Mutant of leftAssociativeBinaryOperatorParser: the operands are grouped from
\* the right.
leftAssociativeBinaryOperatorParser_RightFolding(level, operators, s, i) ==
    LET left == Layer(level - 1, s, i)
        operator == createOperatorParser(operators, s, left.index)
        right == Layer(level, s, operator.index)
    IN  IF ~left.ok THEN Failure
        ELSE IF operator.ok /\ right.ok
        THEN Success(BinaryOperator(operator.value, left.value, right.value),
                     right.index)
        ELSE Success(left.value, left.index)

leftAssociativeBinaryOperatorParser(level, operators, s, i) ==
    LET first == Layer(level - 1, s, i)
    IN  IF first.ok THEN LeftFold(level, operators, s, first.value, first.index)
        ELSE Failure

\* Mutant of rightAssociativeBinaryOperatorParser: the target of an assignment
\* is checked while parsing.
rightAssociativeBinaryOperatorParser_CheckedTarget(level, operators, s, i) ==
    LET left == Layer(level - 1, s, i)
        operator == createOperatorParser(operators, s, left.index)
        right == Layer(level, s, operator.index)
    IN  IF ~left.ok THEN Failure
        ELSE IF operator.ok /\ right.ok
        THEN (IF operator.value = "Assignment" /\ left.value.kind # "Variable"
              THEN Failure
              ELSE Success(BinaryOperator(operator.value, left.value, right.value),
                           right.index))
        ELSE Success(left.value, left.index)

\* Mutant of rightAssociativeBinaryOperatorParser: the operands are grouped
\* from the left.
rightAssociativeBinaryOperatorParser_LeftFolding(level, operators, s, i) ==
    LET first == Layer(level - 1, s, i)
    IN  IF first.ok THEN LeftFold(level, operators, s, first.value, first.index)
        ELSE Failure

rightAssociativeBinaryOperatorParser(level, operators, s, i) ==
    LET left == Layer(level - 1, s, i)
        operator == createOperatorParser(operators, s, left.index)
        right == Layer(level, s, operator.index)
    IN  IF ~left.ok THEN Failure
        ELSE IF operator.ok /\ right.ok
        THEN Success(BinaryOperator(operator.value, left.value, right.value),
                     right.index)
        ELSE Success(left.value, left.index)

\* Mutant of condition_parser: the else branch is an operand, not a chain.
condition_parser_Unchained(level, s, i) ==
    LET a == Layer(level - 1, s, i)
        if == TrimmedString(s, a.index, <<"i", "f">>)
        condition == Layer(level - 1, s, if)
        else == TrimmedString(s, condition.index, <<"e", "l", "s", "e">>)
        b == Layer(level - 1, s, else)
    IN  IF ~a.ok THEN Failure
        ELSE IF if # 0 /\ condition.ok /\ else # 0 /\ b.ok
        THEN Success(Condition(condition.value, a.value, b.value), b.index)
        ELSE Success(a.value, a.index)

condition_parser(level, s, i) ==
    LET a == Layer(level - 1, s, i)
        if == TrimmedString(s, a.index, <<"i", "f">>)
        condition == Layer(level - 1, s, if)
        else == TrimmedString(s, condition.index, <<"e", "l", "s", "e">>)
        b == Layer(level, s, else)
    IN  IF ~a.ok THEN Failure
        ELSE IF if # 0 /\ condition.ok /\ else # 0 /\ b.ok
        THEN Success(Condition(condition.value, a.value, b.value), b.index)
        ELSE Success(a.value, a.index)

Layer(level, s, i) ==
    IF level = 0 THEN primary_parser(s, i)
    ELSE LET layer == associativity_table[level]
         IN  CASE layer.parser = "rightAssociative" ->
                    rightAssociativeBinaryOperatorParser(level, layer.operators, s, i)
               [] layer.parser = "leftAssociative" ->
                    leftAssociativeBinaryOperatorParser(level, layer.operators, s, i)
               [] layer.parser = "unaryPreFix" ->
                    unaryPreFixParser(level, layer.operators, s, i)
               [] layer.parser = "condition" -> condition_parser(level, s, i)

\* associativity_table.reduce(..., primary_parser): every layer applied.
expression_parser(s, i) == Layer(Len(associativity_table), s, i)

\* Mutant of tryParse: the expression may end before the input does.
tryParse_Prefix(s) == expression_parser(s, 1)

\* parser.tryParse(text): the expression, then the end of the input.
tryParse(s) ==
    LET e == expression_parser(s, 1)
    IN  IF e.ok /\ e.index = Len(s) + 1 THEN e ELSE Failure

(***************************************************************************)
(* The expressions and environments of the model.                          *)
(***************************************************************************)
Names == {<<"x">>, <<"y">>, ToStringName}

Literals ==
    {Number(IntNum(i)) : i \in 0..MaxNum}
        \cup {Boolean(b) : b \in BOOLEAN} \cup {String(<<"s">>)}
Variables == {Variable(n) : n \in Names}
Leaves == Literals \cup Variables

\* One operator on leaves.
Simple ==
    Leaves
        \cup {UnaryOperator(k, x) : k \in UnaryKinds, x \in Leaves}
        \cup {BinaryOperator(k, l, r) : k \in BinaryKinds, l \in Leaves, r \in Leaves}
        \cup {Condition(c, a, b) : c \in Leaves, a \in Leaves, b \in Leaves}

\* An operator whose operands may be assignments.
InnerAssignments ==
    {BinaryOperator("Assignment", Variable(n), v) :
        n \in Names, v \in {Number(IntNum(MaxNum)), Boolean(FALSE)}}
Inner == Leaves \cup InnerAssignments
NestingKinds == {"Addition", "And", "Or", "Assignment"}
Nested ==
    {BinaryOperator(k, l, r) : k \in NestingKinds, l \in Inner, r \in Inner}
        \cup {Condition(c, a, b) : c \in Leaves, a \in Inner, b \in Inner}

Expressions == Simple \cup Nested

\* The environments a caller passes: any of the names bound to a number.
Environments ==
    UNION {[keys -> {IntNum(MaxNum)}] : keys \in SUBSET Names}

\* The environments of the tests that index, slice and call.
TestEnvironment ==
    [k \in {<<"a">>, <<"b">>, MathSqrtName} |->
        CASE k = <<"a">> -> Lst(<<IntNum(1), IntNum(2), IntNum(3)>>)
          [] k = <<"b">> -> Lst(<<IntNum(4), IntNum(5), IntNum(6)>>)
          [] k = MathSqrtName -> Fn(MathSqrtName)]

(***************************************************************************)
(* The state machine: a caller holds an expression and an environment and  *)
(* calls resolve and freeVariables on them, any number of times.           *)
(***************************************************************************)
\* No expression yet: the input has not been parsed.
NoExpression == [kind |-> "none"]

NoOutcome ==
    [threw |-> FALSE, value |-> Undefined, error |-> "none", visited |-> <<>>,
     free |-> {}]

Init ==
    /\ expr \in Expressions
    /\ environment \in Environments
    /\ before = environment
    /\ op = "none"
    /\ outcome = NoOutcome
    /\ input = <<>>

\* expr.resolve(environment)
Resolve ==
    LET r == resolve(expr, environment, <<>>)
    IN  /\ expr # NoExpression
        /\ environment' = r.environment
        /\ before' = environment
        /\ op' = "resolve"
        /\ outcome' = [threw |-> r.threw, value |-> r.value, error |-> r.error,
                       visited |-> r.visited, free |-> {}]
        /\ UNCHANGED <<expr, input>>

\* expr.freeVariables(environment)
FreeVariables ==
    LET r == freeVariables(expr, environment)
    IN  /\ expr # NoExpression
        /\ environment' = r.environment
        /\ before' = environment
        /\ op' = "freeVariables"
        /\ outcome' = [threw |-> r.threw, value |-> Undefined, error |-> r.error,
                       visited |-> <<>>, free |-> r.free]
        /\ UNCHANGED <<expr, input>>

Next == Resolve \/ FreeVariables

Spec == Init /\ [][Next]_vars


(***************************************************************************)
(* The same state machine over expressions that slice, build lists and     *)
(* call.                                                                   *)
(***************************************************************************)
\* The bounds of a slice: the integers of -MaxIndex .. MaxIndex, two
\* fractions, -0, the infinities and NaN.
SliceBounds ==
    {IntNum(i) : i \in (0 - MaxIndex)..MaxIndex}
        \cup {Rat(3, 2), Rat(-3, 2), NegZero, Infinity(1), Infinity(-1), NaN}

SlicedLists ==
    {Variable(<<"a">>), List(<<>>), List(<<Number(IntNum(1)), Number(IntNum(2))>>)}

Slices ==
    {Slice(l, Number(i), Number(j)) :
        l \in SlicedLists, i \in SliceBounds, j \in SliceBounds}

\* Elements of a list and arguments of a call: reads and assignments.
Elements ==
    { Number(IntNum(1)), Variable(<<"x">>), Variable(<<"y">>),
      BinaryOperator("Assignment", Variable(<<"x">>), Number(IntNum(4))),
      BinaryOperator("Assignment", Variable(<<"y">>), Variable(<<"x">>)) }

ElementLists ==
    {<<>>} \cup {<<e>> : e \in Elements}
        \cup {<<e1, e2>> : e1 \in Elements, e2 \in Elements}

Lists ==
    {List(l) : l \in ElementLists}
        \cup {List(<<e1, e2, e3>>) : e1 \in Elements, e2 \in Elements,
                                     e3 \in Elements}

Callees ==
    { Variable(MathSqrtName), Variable(ToStringName), Variable(ValueOfName),
      Variable(<<"x">>), Variable(<<"a">>), Number(IntNum(1)) }

Applies == {Apply(fn, args) : fn \in Callees, args \in ElementLists}

InitList ==
    /\ expr \in Slices \cup Lists \cup Applies
    /\ environment \in {EmptyEnvironment, TestEnvironment}
    /\ before = environment
    /\ op = "none"
    /\ outcome = NoOutcome
    /\ input = <<>>

SpecList == InitList /\ [][Next]_vars

(***************************************************************************)
(* The second state machine: a caller parses a text, then resolves or      *)
(* analyses the expression the parser returned.                            *)
(***************************************************************************)
\* Operand texts, each with the expression the grammar gives it: the texts
\* left of := (one level below the assignment layer) and right of it.
TargetTexts ==
    { [text |-> <<"1">>,
       ast |-> Number(IntNum(1))],
      [text |-> <<"T", "r", "u", "e">>,
       ast |-> Boolean(TRUE)],
      [text |-> <<"'", "s", "'">>,
       ast |-> String(<<"s">>)],
      [text |-> <<"x">>,
       ast |-> Variable(<<"x">>)],
      [text |-> <<"(", "x", ")">>,
       ast |-> Variable(<<"x">>)],
      [text |-> <<"1", " ", "+", " ", "x">>,
       ast |-> BinaryOperator("Addition", Number(IntNum(1)), Variable(<<"x">>))],
      [text |-> <<"n", "o", "t", " ", "x">>,
       ast |-> UnaryOperator("Not", Variable(<<"x">>))],
      [text |-> <<"x", " ", "o", "r", " ", "y">>,
       ast |-> BinaryOperator("Or", Variable(<<"x">>), Variable(<<"y">>))],
      [text |-> <<"a", " ", "i", "f", " ", "c", " ", "e", "l", "s", "e", " ", "b">>,
       ast |-> Condition(Variable(<<"c">>), Variable(<<"a">>), Variable(<<"b">>))],
      [text |-> <<"(", "x", " ", ":", "=", " ", "1", ")">>,
       ast |-> BinaryOperator("Assignment", Variable(<<"x">>), Number(IntNum(1)))] }
SourceTexts ==
    { [text |-> <<"1">>,
       ast |-> Number(IntNum(1))],
      [text |-> <<"2">>,
       ast |-> Number(IntNum(2))],
      [text |-> <<"y">>,
       ast |-> Variable(<<"y">>)],
      [text |-> <<"y", " ", ":", "=", " ", "1">>,
       ast |-> BinaryOperator("Assignment", Variable(<<"y">>), Number(IntNum(1)))] }

AssignmentTokens == {<<":", "=">>, <<" ", ":", "=", " ">>}

AssignmentTexts ==
    {l.text \o t \o r.text : l \in TargetTexts, t \in AssignmentTokens,
                             r \in SourceTexts}

\* The operand texts on their own: each is an expression.
OperandTexts == {t.text : t \in TargetTexts \cup SourceTexts}

\* Texts that end with the closing bracket of a list.
ListTexts ==
    { [text |-> <<"[", "]">>, ast |-> List(<<>>)],
      [text |-> <<"[", "1", "]">>, ast |-> List(<<Number(IntNum(1))>>)],
      [text |-> <<"[", "1", ",", " ", "x", "]">>,
       ast |-> List(<<Number(IntNum(1)), Variable(<<"x">>)>>)],
      [text |-> <<"x", " ", "+", " ", "[", "1", "]">>,
       ast |-> BinaryOperator("Addition", Variable(<<"x">>),
                              List(<<Number(IntNum(1))>>))] }

ExpressionTexts ==
    OperandTexts \cup AssignmentTexts \cup {t.text : t \in ListTexts}

\* Characters that continue none of the texts above into a longer expression:
\* white space, and the rest.
Blanks == {<<" ">>, <<"\n">>, <<" ", " ">>}
Trailers ==
    Blanks \cup {<<")">>, <<"]">>, <<",">>, <<" ", "2">>, <<" ", "x">>,
                 <<" ", "+">>, <<" ", "i", "f", " ", "x">>}

TrailedTexts == {t \o r : t \in ExpressionTexts, r \in Trailers}

\* Arithmetic as it is written on paper.  A tree is a literal or an operator
\* over two trees; "binds" orders the operators, the tighter the higher.
ArithmeticLiterals ==
    { [kind |-> "Number", text |-> <<"2">>, number |-> IntNum(2), binds |-> 3],
      [kind |-> "Number", text |-> <<"3">>, number |-> IntNum(3), binds |-> 3] }

ArithmeticOperators ==
    { [kind |-> "Addition", text |-> <<"+">>, binds |-> 1],
      [kind |-> "Subtraction", text |-> <<"-">>, binds |-> 1],
      [kind |-> "Multiply", text |-> <<"*">>, binds |-> 2],
      [kind |-> "Divide", text |-> <<"/">>, binds |-> 2] }

ArithmeticOver(operands) ==
    { [kind |-> o.kind, text |-> o.text, binds |-> o.binds, left |-> l, right |-> r] :
        o \in ArithmeticOperators, l \in operands, r \in operands }

ArithmeticOperands == ArithmeticLiterals \cup ArithmeticOver(ArithmeticLiterals)

ArithmeticTrees == ArithmeticOperands \cup ArithmeticOver(ArithmeticOperands)

\* The infix text of a tree.  "tight" and "spaced" write only the parentheses
\* the usual conventions need (around a looser operand, and around a right
\* operand that binds the same); "bracketed" writes them around every operand
\* that is not a literal.
InfixStyles == {"tight", "spaced", "bracketed"}

RECURSIVE Infix(_, _)
Infix(t, style) ==
    IF t.kind = "Number" THEN t.text
    ELSE LET blank == IF style = "tight" THEN <<>> ELSE <<" ">>
             needed(operand, least) ==
                 IF style = "bracketed" THEN operand.kind # "Number"
                 ELSE operand.binds < least
             written(operand, least) ==
                 IF needed(operand, least)
                 THEN <<"(">> \o Infix(operand, style) \o <<")">>
                 ELSE Infix(operand, style)
         IN  written(t.left, t.binds) \o blank \o t.text \o blank
                \o written(t.right, t.binds + 1)

\* The expression a tree denotes.
RECURSIVE ArithmeticExpression(_)
ArithmeticExpression(t) ==
    IF t.kind = "Number" THEN Number(t.number)
    ELSE BinaryOperator(t.kind, ArithmeticExpression(t.left),
                        ArithmeticExpression(t.right))

\* The value of a tree.
RECURSIVE ArithmeticValue(_)
ArithmeticValue(t) ==
    LET l == ArithmeticValue(t.left)
        r == ArithmeticValue(t.right)
    IN  CASE t.kind = "Number" -> t.number
          [] t.kind = "Addition" -> NumAdd(l, r)
          [] t.kind = "Subtraction" -> NumSub(l, r)
          [] t.kind = "Multiply" -> NumMul(l, r)
          [] t.kind = "Divide" -> NumDiv(l, r)

ArithmeticCases ==
    { [text |-> Infix(t, style), ast |-> ArithmeticExpression(t),
       value |-> ArithmeticValue(t)] : t \in ArithmeticTrees, style \in InfixStyles }

ArithmeticTexts == {c.text : c \in ArithmeticCases}

\* Primary expressions for the three places of "a ** b ** c".
ExponentiateBases ==
    { [text |-> <<"4">>, ast |-> Number(IntNum(4))],
      [text |-> <<"x">>, ast |-> Variable(<<"x">>)],
      [text |-> <<"(", "x", ")">>, ast |-> Variable(<<"x">>)],
      [text |-> <<"x", "[", "0", "]">>,
       ast |-> Index(Variable(<<"x">>), Number(PosZero))] }
ExponentiateMiddles ==
    { [text |-> <<"3">>, ast |-> Number(IntNum(3))],
      [text |-> <<"y">>, ast |-> Variable(<<"y">>)],
      [text |-> <<"(", "1", " ", "+", " ", "1", ")">>,
       ast |-> BinaryOperator("Addition", Number(IntNum(1)), Number(IntNum(1)))],
      [text |-> <<"[", "1", "]">>, ast |-> List(<<Number(IntNum(1))>>)] }
ExponentiateTops ==
    { [text |-> <<"2">>, ast |-> Number(IntNum(2))],
      [text |-> <<"x">>, ast |-> Variable(<<"x">>)],
      [text |-> <<"T", "r", "u", "e">>, ast |-> Boolean(TRUE)],
      [text |-> <<"f", "(", "2", ")">>,
       ast |-> Apply(Variable(<<"f">>), <<Number(IntNum(2))>>)] }
ExponentiateTokens == {<<"*", "*">>, <<" ", "*", "*", " ">>}

ExponentiateCases ==
    { [text |-> a.text \o t \o b.text \o t \o c.text,
       ast |-> BinaryOperator("Exponentiate", a.ast,
                              BinaryOperator("Exponentiate", b.ast, c.ast))] :
        a \in ExponentiateBases, b \in ExponentiateMiddles,
        c \in ExponentiateTops, t \in ExponentiateTokens }

\* Operands of the ternary: the values and the conditions.
ConditionValues ==
    { [text |-> <<"1">>, ast |-> Number(IntNum(1))],
      [text |-> <<"x">>, ast |-> Variable(<<"x">>)],
      [text |-> <<"y", " ", "+", " ", "1">>,
       ast |-> BinaryOperator("Addition", Variable(<<"y">>), Number(IntNum(1)))] }
ConditionTests ==
    { [text |-> <<"F", "a", "l", "s", "e">>, ast |-> Boolean(FALSE)],
      [text |-> <<"T", "r", "u", "e">>, ast |-> Boolean(TRUE)],
      [text |-> <<"x", " ", "o", "r", " ", "y">>,
       ast |-> BinaryOperator("Or", Variable(<<"x">>), Variable(<<"y">>))] }
If == <<" ", "i", "f", " ">>
Else == <<" ", "e", "l", "s", "e", " ">>

\* "a if c else b" for a text b that is itself a value or a chain.
ConditionChain(tails) ==
    { [text |-> a.text \o If \o c.text \o Else \o b.text,
       ast |-> Condition(c.ast, a.ast, b.ast)] :
        a \in ConditionValues, c \in ConditionTests, b \in tails }

\* 1 if False else 2 if True else 3, and the chain of four values that starts
\* with it.
ConditionExamples ==
    LET last == [text |-> <<"2">> \o If \o <<"T", "r", "u", "e">> \o Else \o <<"3">>,
                 ast |-> Condition(Boolean(TRUE), Number(IntNum(2)),
                                   Number(IntNum(3)))]
        longer == [text |-> last.text \o If \o <<"x">> \o Else \o <<"4">>,
                   ast |-> Condition(Boolean(TRUE), Number(IntNum(2)),
                               Condition(Variable(<<"x">>), Number(IntNum(3)),
                                         Number(IntNum(4))))]
    IN  { [text |-> <<"1">> \o If \o <<"F", "a", "l", "s", "e">> \o Else \o b.text,
           ast |-> Condition(Boolean(FALSE), Number(IntNum(1)), b.ast)] :
            b \in {last, longer} }

ConditionCases ==
    ConditionChain(ConditionValues)
        \cup ConditionChain(ConditionChain(ConditionValues))
        \cup ConditionChain(ConditionExamples)
        \cup ConditionExamples

\* What stands before the brackets of an index or a slice, and what stands
\* inside them.
BracketHeads ==
    { [text |-> <<"a">>,
       ast |-> Variable(<<"a">>)],
      [text |-> <<"(", "a", " ", "i", "f", " ", "T", "r", "u", "e", " ", "e", "l", "s", "e", " ", "b", ")">>,
       ast |-> Condition(Boolean(TRUE), Variable(<<"a">>), Variable(<<"b">>))],
      [text |-> <<"(", "x", ")">>,
       ast |-> Variable(<<"x">>)] }
BracketOperands ==
    { [text |-> <<"0">>,
       ast |-> Number(PosZero)],
      [text |-> <<"2">>,
       ast |-> Number(IntNum(2))],
      [text |-> <<"x", " ", "+", " ", "1">>,
       ast |-> BinaryOperator("Addition", Variable(<<"x">>), Number(IntNum(1)))],
      [text |-> <<"x", " ", ":", "=", " ", "1">>,
       ast |-> BinaryOperator("Assignment", Variable(<<"x">>), Number(IntNum(1)))],
      [text |-> <<"-", "1">>,
       ast |-> UnaryOperator("Negate", Number(IntNum(1)))],
      [text |-> <<"b", "[", "0", "]">>,
       ast |-> Index(Variable(<<"b">>), Number(PosZero))],
      [text |-> <<"b", "[", "0", ":", "1", "]">>,
       ast |-> Slice(Variable(<<"b">>), Number(PosZero), Number(IntNum(1)))] }

\* The brackets, tight and with blanks inside.
BracketStyles ==
    { [open |-> <<"[">>, colon |-> <<":">>, close |-> <<"]">>],
      [open |-> <<"[", " ">>, colon |-> <<" ", ":", " ">>, close |-> <<" ", "]">>] }

IndexCases ==
    { [text |-> p.text \o b.open \o e.text \o b.close,
       ast |-> Index(p.ast, e.ast)] :
        p \in BracketHeads, e \in BracketOperands, b \in BracketStyles }

SliceCases ==
    { [text |-> p.text \o b.open \o e1.text \o b.colon \o e2.text \o b.close,
       ast |-> Slice(p.ast, e1.ast, e2.ast)] :
        p \in BracketHeads, e1 \in BracketOperands, e2 \in BracketOperands,
        b \in BracketStyles }

BracketTexts == {c.text : c \in IndexCases \cup SliceCases}

\* Names: each matches [A-Za-z_][A-Za-z0-9_.]* and none is True or False.
IdentifierTexts ==
    { <<"x">>,
      <<"x", ".", "y">>,
      <<"_", "a", "1">>,
      <<"o", "r", "a", "n", "g", "e">>,
      <<"a", "n", "d", "r", "o", "i", "d">>,
      <<"i", "f", "f", "y">>,
      <<"e", "l", "s", "e", "w", "h", "e", "r", "e">>,
      <<"n", "o", "t">>,
      <<"n", "o", "t", "h", "i", "n", "g">>,
      <<"n", "o", "t", "x">>,
      <<"T", "r", "u", "e", "x">>,
      <<"F", "a", "l", "s", "e", "_", "f", "l", "a", "g">>,
      <<"T", "r", "u">>,
      <<"T", "r", "u", "e", "T", "r", "u", "e">> }

Texts ==
    ExpressionTexts \cup TrailedTexts \cup ArithmeticTexts \cup IdentifierTexts
        \cup {c.text : c \in ExponentiateCases}
        \cup {c.text : c \in ConditionCases}
        \cup BracketTexts

InitParse ==
    /\ input \in Texts
    /\ expr = NoExpression
    /\ environment \in Environments \cup {TestEnvironment}
    /\ input \in TrailedTexts \cup ArithmeticTexts \cup (IdentifierTexts \ {<<"x">>})
            => environment = EmptyEnvironment
    /\ input \in BracketTexts => environment \in {EmptyEnvironment, TestEnvironment}
    /\ environment = TestEnvironment => input \in BracketTexts
    /\ before = environment
    /\ op = "none"
    /\ outcome = NoOutcome

ParseError == "parse error"

\* expr = parser.tryParse(input)
Parse ==
    LET r == tryParse(input)
    IN  /\ op = "none"
        /\ expr = NoExpression
        /\ expr' = IF r.ok THEN r.value ELSE NoExpression
        /\ op' = "parse"
        /\ outcome' = [NoOutcome EXCEPT !.threw = ~r.ok,
                                        !.error = IF r.ok THEN "none" ELSE ParseError]
        /\ before' = environment
        /\ UNCHANGED <<environment, input>>

NextParse == Parse \/ Resolve \/ FreeVariables

SpecParse == InitParse /\ [][NextParse]_vars


(***************************************************************************)
(* Vocabulary of the properties.                                           *)
(***************************************************************************)
\* The last call resolved the node at this path.
Visited(path) == \E i \in DOMAIN outcome.visited : outcome.visited[i] = path

\* The operands of the expression held, resolved as the last call found them.
LeftOutcome == resolve(expr.left_expression, before, <<1>>)
RightOutcome == resolve(expr.right_expression, LeftOutcome.environment, <<2>>)
OperandOutcome == resolve(expr.expression, before, <<1>>)
ConditionOutcome == resolve(expr.condition, before, <<1>>)

\* The names that are the target of an Assignment node of e.
RECURSIVE AssignmentTargets(_)
AssignmentTargets(e) ==
    CASE e.kind \in {"Number", "Boolean", "String", "Variable"} -> {}
      [] e.kind \in UnaryKinds -> AssignmentTargets(e.expression)
      [] e.kind \in BinaryKinds ->
            (IF e.kind = "Assignment" /\ e.left_expression.kind = "Variable"
             THEN {e.left_expression.variable} ELSE {})
                \cup AssignmentTargets(e.left_expression)
                \cup AssignmentTargets(e.right_expression)
      [] e.kind = "Condition" ->
            AssignmentTargets(e.condition) \cup AssignmentTargets(e.a)
                \cup AssignmentTargets(e.b)

\* The keys whose binding differs between two environments.
Changed(env1, env2) ==
    {k \in DOMAIN env1 \cup DOMAIN env2 :
        k \notin DOMAIN env1 \/ k \notin DOMAIN env2 \/ env1[k] # env2[k]}

C2_OnlyTakenBranchEvaluated ==
    (op = "resolve" /\ expr.kind = "Condition" /\ ~ConditionOutcome.threw)
        => LET first == ToBoolean(ConditionOutcome.value)
               taken == resolve(IF first THEN expr.a ELSE expr.b,
                                ConditionOutcome.environment,
                                IF first THEN <<2>> ELSE <<3>>)
           IN  /\ Visited(<<1>>)
               /\ Visited(<<2>>) <=> first
               /\ Visited(<<3>>) <=> ~first
               /\ outcome.threw = taken.threw
               /\ outcome.value = taken.value
               /\ outcome.error = taken.error
               /\ environment = taken.environment

\* A Condition resolved without throwing whose untaken branch would have
\* thrown, and another whose untaken branch would have written.
C2_Witness ==
    /\ op = "resolve"
    /\ expr.kind = "Condition"
    /\ ~ConditionOutcome.threw
    /\ ~outcome.threw
    /\ LET first == ToBoolean(ConditionOutcome.value)
           untaken == resolve(IF first THEN expr.b ELSE expr.a,
                              ConditionOutcome.environment, <<0>>)
       IN  untaken.threw
           \/ Changed(untaken.environment, ConditionOutcome.environment) # {}

(***************************************************************************)
(* C3.  A successful resolve of Assignment(Variable k, e) returns the      *)
(* value v of e and leaves environment[k] = v, and a binary operator       *)
(* resolves its left operand first, so in (k := e) + k the right operand   *)
(* reads v: the sum is v + v, and (x := 1) + x resolves to 2.              *)
(***************************************************************************)
C3_AssignmentVisibleToSibling ==
    /\ (op = "resolve" /\ expr.kind = "Assignment" /\ ~outcome.threw)
            => /\ expr.left_expression.kind = "Variable"
               /\ outcome.value = resolve(expr.right_expression, before, <<2>>).value
               /\ expr.left_expression.variable \in DOMAIN environment
               /\ environment[expr.left_expression.variable] = outcome.value
    /\ (/\ op = "resolve"
        /\ expr.kind = "Addition"
        /\ expr.left_expression.kind = "Assignment"
        /\ expr.left_expression.left_expression.kind = "Variable"
        /\ expr.right_expression = expr.left_expression.left_expression
        /\ ~LeftOutcome.threw)
            => /\ ~outcome.threw
               /\ outcome.value = JsAdd(LeftOutcome.value, LeftOutcome.value)
               /\ expr.left_expression.right_expression.kind = "Number"
                    => outcome.value =
                         NumAdd(expr.left_expression.right_expression.number,
                                expr.left_expression.right_expression.number)

\* (x := n) + x resolved against the empty environment, for a number n > 0.
C3_Witness ==
    /\ op = "resolve"
    /\ before = EmptyEnvironment
    /\ expr.kind = "Addition"
    /\ expr.left_expression.kind = "Assignment"
    /\ expr.left_expression.left_expression = Variable(<<"x">>)
    /\ expr.left_expression.right_expression.kind = "Number"
    /\ expr.right_expression = Variable(<<"x">>)
    /\ outcome.value.tag = "number"
    /\ outcome.value.n = 2 * expr.left_expression.right_expression.number.n
    /\ outcome.value.n > 0

(***************************************************************************)
(* C4.  resolve writes the environment only through Assignment nodes: it   *)
(* removes no key, and whether it returns or throws, the only keys whose   *)
(* binding changed are targets of Assignment nodes of the expression (so   *)
(* an expression without Assignment leaves the environment as it was).     *)
(***************************************************************************)
C4_OnlyAssignmentWrites ==
    op = "resolve"
        => /\ DOMAIN before \subseteq DOMAIN environment
           /\ Changed(before, environment) \subseteq AssignmentTargets(expr)

\* A resolve that threw after an Assignment had written.
C4_Witness ==
    /\ op = "resolve"
    /\ outcome.threw
    /\ Changed(before, environment) # {}

(***************************************************************************)
(* C5.  As stated: an arithmetic, comparison or logical operator resolved  *)
(* with an operand whose value is not of the kind it requires (a number    *)
(* for arithmetic and comparison, a boolean for And, Or and Not) fails     *)
(* instead of producing a coerced value.                                   *)
(***************************************************************************)
NumberOperandKinds ==
    ArithmeticKinds \cup {"LessThen", "GreaterThen", "LessThenEq", "GreaterThenEq"}

C5_MismatchedOperandFails ==
    /\ (op = "resolve" /\ expr.kind \in NumberOperandKinds \cup LogicalKinds
        /\ ~LeftOutcome.threw /\ ~RightOutcome.threw
        /\ LET required == IF expr.kind \in LogicalKinds THEN "boolean" ELSE "number"
           IN  LeftOutcome.value.tag # required \/ RightOutcome.value.tag # required)
            => outcome.threw
    /\ (op = "resolve" /\ expr.kind \in {"Negate", "Not"} /\ ~OperandOutcome.threw
        /\ OperandOutcome.value.tag # (IF expr.kind = "Not" THEN "boolean" ELSE "number"))
            => outcome.threw

(***************************************************************************)
(* C6.  As stated: resolving Variable(k) fails with the undefined-variable *)
(* error when the environment has no key k, and returns the bound value    *)
(* when it has.                                                            *)
(***************************************************************************)
C6_AbsentKeyFails ==
    (op = "resolve" /\ expr.kind = "Variable")
        => IF expr.variable \in DOMAIN before
           THEN ~outcome.threw /\ outcome.value = before[expr.variable]
           ELSE outcome.threw /\ outcome.error = VariableNotDefined

(***************************************************************************)
(* C7.  As stated: freeVariables leaves the environment it is given with   *)
(* the same keys and the same value under every key.                       *)
(***************************************************************************)
C7_FreeVariablesReadOnly == op = "freeVariables" => environment = before

(***************************************************************************)
(* C8.  As stated: with S the set freeVariables returned for the           *)
(* expression against an environment, resolving the expression against    *)
(* any environment that binds every key of that environment and every name *)
(* of S never fails with the undefined-variable error.                     *)
(***************************************************************************)
C8_FreeVariablesSound ==
    (op = "freeVariables" /\ ~outcome.threw)
        => \A env \in Environments :
              (DOMAIN before \cup outcome.free) \subseteq DOMAIN env
                  => resolve(expr, env, <<>>).error # VariableNotDefined

(***************************************************************************)
(* C9.  freeVariables walks the expression left operand first, an          *)
(* Assignment binding its target before its right operand is walked, and   *)
(* returns exactly the names read that are neither keys of the given       *)
(* environment nor the target of an Assignment met earlier in the walk:    *)
(* for (x := 1) + x against the empty environment, the empty set.          *)
(***************************************************************************)
\* The walk: the names bound and read, in order.
RECURSIVE Walk(_)
Walk(e) ==
    CASE e.kind \in {"Number", "Boolean", "String"} -> <<>>
      [] e.kind = "Variable" -> <<[event |-> "read", name |-> e.variable]>>
      [] e.kind \in UnaryKinds -> Walk(e.expression)
      [] e.kind = "Assignment" ->
            <<[event |-> "bind", name |-> e.left_expression.variable]>>
                \o Walk(e.right_expression)
      [] e.kind \in BinaryKinds \ {"Assignment"} ->
            Walk(e.left_expression) \o Walk(e.right_expression)
      [] e.kind = "Condition" -> Walk(e.condition) \o Walk(e.a) \o Walk(e.b)

ReadBeforeBound(walk, env) ==
    {walk[i].name : i \in
        {j \in DOMAIN walk :
            /\ walk[j].event = "read"
            /\ walk[j].name \notin DOMAIN env
            /\ \A h \in 1..(j - 1) :
                  ~(walk[h].event = "bind" /\ walk[h].name = walk[j].name)}}

C9_FreeVariablesSkipsBoundNames ==
    (op = "freeVariables" /\ ~outcome.threw)
        => outcome.free = ReadBeforeBound(Walk(expr), before)

\* (x := n) + x analysed against the empty environment: nothing is free.
C9_Witness ==
    /\ op = "freeVariables"
    /\ before = EmptyEnvironment
    /\ expr.kind = "Addition"
    /\ expr.left_expression.kind = "Assignment"
    /\ expr.left_expression.left_expression = Variable(<<"x">>)
    /\ expr.right_expression = Variable(<<"x">>)
    /\ ~outcome.threw
    /\ outcome.free = {}

(***************************************************************************)
(* C10.  A text "l := r" parses to Assignment(l, r) whatever the           *)
(* expression l is, a Variable or not; an Assignment whose left operand is *)
(* not a Variable fails only when it is resolved, with the                 *)
(* invalid-assignment-target error.                                        *)
(***************************************************************************)
C10_InvalidTargetFailsAtResolve ==
    /\ op = "parse"
        => \A l \in TargetTexts, t \in AssignmentTokens, r \in SourceTexts :
              input = l.text \o t \o r.text
                  => /\ ~outcome.threw
                     /\ expr = BinaryOperator("Assignment", l.ast, r.ast)
    /\ (op = "resolve" /\ expr.kind = "Assignment"
        /\ expr.left_expression.kind # "Variable")
            => /\ outcome.threw
               /\ outcome.error = LeftSideMustBeVariable

\* "a if c else b := ..." was parsed to an Assignment to a Condition, which
\* then failed to resolve.
C10_Witness ==
    /\ op = "resolve"
    /\ \E t \in AssignmentTokens, r \in SourceTexts :
          input = <<"a", " ", "i", "f", " ", "c", " ", "e", "l", "s", "e", " ", "b">>
                    \o t \o r.text
    /\ expr.kind = "Assignment"
    /\ expr.left_expression.kind = "Condition"
    /\ outcome.error = LeftSideMustBeVariable

(***************************************************************************)
(* C11.  As stated: a text that is an expression followed by characters    *)
(* the grammar cannot consume, trailing white space included, gives a      *)
(* parse error and no expression.                                          *)
(***************************************************************************)
C11_TrailingInputIsParseError ==
    (op = "parse" /\ input \in TrailedTexts)
        => /\ outcome.threw
           /\ expr = NoExpression

\* C11, amended.  Parsing consumes the whole input or fails.  An expression
\* followed by anything but white space is a parse error with no expression;
\* followed by white space it is a parse error too, unless it ends with the
\* closing bracket of a list, which takes the white space after it: the text
\* then parses to the expression it parses to without the white space.
C11_OnlyListEndTakesTrailingBlanks ==
    op = "parse"
        => /\ \A t \in ExpressionTexts, r \in Trailers :
                (input = t \o r /\ ~(t \in {l.text : l \in ListTexts} /\ r \in Blanks))
                    => /\ outcome.threw
                       /\ outcome.error = ParseError
                       /\ expr = NoExpression
           /\ \A l \in ListTexts, r \in Blanks \cup {<<>>} :
                input = l.text \o r
                    => /\ ~outcome.threw
                       /\ expr = l.ast
           /\ input \in ExpressionTexts
                => /\ ~outcome.threw
                   /\ expr # NoExpression

\* "1 " (a number and a trailing blank) was rejected.
C11_Witness ==
    /\ op = "parse"
    /\ input = <<"1", " ">>
    /\ outcome.threw
    /\ expr = NoExpression

(***************************************************************************)
(* C12.  A text of numeric literals, the four operators + - * / and        *)
(* parentheses parses to the expression that the usual conventions give    *)
(* it: multiplication and division bind tighter than addition and          *)
(* subtraction, and all four group from the left.  It resolves to the      *)
(* value of that expression without touching the environment.              *)
(***************************************************************************)
C12_InfixArithmetic ==
    \A c \in ArithmeticCases :
        (input = c.text /\ op # "none")
            => /\ expr = c.ast
               /\ op = "parse" => ~outcome.threw
               /\ op = "resolve" => /\ ~outcome.threw
                                    /\ outcome.value = c.value
                                    /\ environment = before

\* "2 - 3 - 2" resolved to -3, the value of (2 - 3) - 2, and "2 + 3 * 2" to 8.
C12_Witness ==
    /\ op = "resolve"
    /\ \/ /\ input = <<"2", " ", "-", " ", "3", " ", "-", " ", "2">>
          /\ outcome.value = IntNum(-3)
       \/ /\ input = <<"2", " ", "+", " ", "3", " ", "*", " ", "2">>
          /\ outcome.value = IntNum(8)

(***************************************************************************)
(* C13.  ** groups from the right: for primary expressions a, b and c the  *)
(* text "a ** b ** c" parses to Exponentiate(a, Exponentiate(b, c)), and   *)
(* "4 ** 3 ** 2" resolves to 262144.                                       *)
(***************************************************************************)
C13_ExponentiateGroupsFromTheRight ==
    /\ \A c \in ExponentiateCases :
          (input = c.text /\ op # "none") => expr = c.ast
    /\ (op = "resolve"
        /\ input = <<"4", " ", "*", "*", " ", "3", " ", "*", "*", " ", "2">>)
            => /\ ~outcome.threw
               /\ outcome.value = IntNum(262144)

\* "4 ** 3 ** 2" was parsed and resolved.
C13_Witness ==
    /\ op = "resolve"
    /\ input = <<"4", " ", "*", "*", " ", "3", " ", "*", "*", " ", "2">>
    /\ expr = BinaryOperator("Exponentiate", Number(IntNum(4)),
                  BinaryOperator("Exponentiate", Number(IntNum(3)),
                                 Number(IntNum(2))))
    /\ ~outcome.threw

(***************************************************************************)
(* C14.  The ternary chains from the right: "A if C1 else B if C2 else D"  *)
(* parses to Condition(C1, A, Condition(C2, B, D)), and so on for longer   *)
(* chains, and "1 if False else 2 if True else 3" resolves to 2.           *)
(***************************************************************************)
C14_ConditionChainsFromTheRight ==
    /\ \A c \in ConditionCases :
          (input = c.text /\ op # "none") => expr = c.ast
    /\ (op = "resolve"
        /\ input = <<"1">> \o If \o <<"F", "a", "l", "s", "e">> \o Else \o <<"2">>
                     \o If \o <<"T", "r", "u", "e">> \o Else \o <<"3">>)
            => /\ ~outcome.threw
               /\ outcome.value = IntNum(2)

\* "1 if False else 2 if True else 3" was parsed to a Condition whose else
\* branch is a Condition, and resolved to 2.
C14_Witness ==
    /\ op = "resolve"
    /\ input = <<"1">> \o If \o <<"F", "a", "l", "s", "e">> \o Else \o <<"2">>
                 \o If \o <<"T", "r", "u", "e">> \o Else \o <<"3">>
    /\ expr.kind = "Condition"
    /\ expr.b.kind = "Condition"
    /\ outcome.value = IntNum(2)

(***************************************************************************)
(* C15.  For p a name or a parenthesised expression, "p[e]" parses to      *)
(* Index(p, e) and "p[e1:e2]" to Slice(p, e1, e2): the colon between the   *)
(* brackets decides, and a slice is not lost to the index parser that is   *)
(* tried before it.  Against the environment of the tests a[0] is 1,       *)
(* a[0 : 2] is [1, 2] and (a if True else b)[1] is 2.                      *)
(***************************************************************************)
C15_ColonDecidesIndexOrSlice ==
    /\ \A c \in IndexCases \cup SliceCases :
          (input = c.text /\ op # "none") => expr = c.ast
    /\ (op = "resolve" /\ before = TestEnvironment)
          => /\ input = <<"a", "[", "0", "]">>
                  => outcome.value = IntNum(1)
             /\ input = <<"a", "[", " ", "0", " ", ":", " ", "2", " ", "]">>
                  => outcome.value = Lst(<<IntNum(1), IntNum(2)>>)
             /\ input = <<"(", "a", " ", "i", "f", " ", "T", "r", "u", "e", " ",
                          "e", "l", "s", "e", " ", "b", ")", "[", "2", "]">>
                  => outcome.value = IntNum(3)

\* "a[0:2]" was parsed to a Slice and resolved to [1, 2].
C15_Witness ==
    /\ op = "resolve"
    /\ input = <<"a", "[", "0", ":", "2", "]">>
    /\ expr = Slice(Variable(<<"a">>), Number(PosZero), Number(IntNum(2)))
    /\ outcome.value = Lst(<<IntNum(1), IntNum(2)>>)

(***************************************************************************)
(* C19.  An input that is one name, and not the keyword True or False,     *)
(* parses to the Variable of that name, also when the name begins with a   *)
(* keyword or with a word operator.                                        *)
(***************************************************************************)
C19_NameParsesToVariable ==
    (op = "parse" /\ input \in IdentifierTexts)
        => /\ ~outcome.threw
           /\ expr = Variable(input)

(***************************************************************************)
(* C17.  InEquality reports what Equality reports, not its negation:       *)
(* resolving InEquality(l, r) has the outcome of resolving Equality(l, r)  *)
(* against the same environment, which is true when the two values are     *)
(* equal and false otherwise.                                              *)
(***************************************************************************)
C17_InEqualityIsEquality ==
    (op = "resolve" /\ expr.kind = "InEquality")
        => LET equality == resolve([expr EXCEPT !.kind = "Equality"], before, <<>>)
           IN  /\ outcome.threw = equality.threw
               /\ outcome.value = equality.value
               /\ outcome.error = equality.error
               /\ environment = equality.environment
               /\ ~outcome.threw
                    => outcome.value = Bool(LeftOutcome.value = RightOutcome.value)

\* InEquality of two equal numbers resolved to true, and of a number and a
\* string to false.
C17_Witness ==
    /\ op = "resolve"
    /\ expr.kind = "InEquality"
    /\ ~outcome.threw
    /\ \/ /\ LeftOutcome.value = IntNum(MaxNum)
          /\ RightOutcome.value = IntNum(MaxNum)
          /\ outcome.value = Bool(TRUE)
       \/ /\ LeftOutcome.value = IntNum(MaxNum)
          /\ RightOutcome.value = Str(<<"s">>)
          /\ outcome.value = Bool(FALSE)

(***************************************************************************)
(* C16.  As stated: resolving Slice(l, i, j), where l resolves to a list L *)
(* and i and j to numbers, never fails, and bounds outside 0 .. len(L),    *)
(* negative or greater than the length, are clamped to that range: the     *)
(* result is the sub-list of L between the clamped bounds.                 *)
(***************************************************************************)
\* The list the left operand of the slice held resolves to.
SlicedList == resolve(expr.list, before, <<1>>)

SliceBoundInteger(b) ==
    CASE b \in {NaN, NegZero, PosZero} -> 0
      [] b = Rat(3, 2) -> 1
      [] b = Rat(-3, 2) -> -1
      [] b = Infinity(1) -> MaxIndex + 1
      [] b = Infinity(-1) -> 0 - (MaxIndex + 1)
      [] b \in {IntNum(i) : i \in ((0 - MaxIndex)..MaxIndex) \ {0}} -> b.n

Children ==
    IF expr.kind = "List" THEN expr.list ELSE <<expr.fn>> \o expr.args

\* What child k does on its own, started in the environment child k - 1 left.
RECURSIVE ChildOutcome(_)
ChildOutcome(k) ==
    resolve(Children[k],
            IF k = 1 THEN before ELSE ChildOutcome(k - 1).environment, <<k>>)

\* Evaluation gets as far as child k: no earlier child failed, and the callee
\* of an Apply turned out to be a function.
Reached(k) ==
    /\ \A j \in 1..(k - 1) : ~ChildOutcome(j).threw
    /\ (expr.kind = "Apply" /\ k > 1) => ChildOutcome(1).value.tag = "function"

C18_ElementsResolveInOrderInSharedEnvironment ==
    (op = "resolve" /\ expr.kind \in {"List", "Apply"})
        => LET n == Len(Children)
               finished == \A k \in 1..n : Reached(k) /\ ~ChildOutcome(k).threw
           IN  /\ \A k \in 1..n :
                     /\ Visited(<<k>>) <=> Reached(k)
                     /\ (Reached(k) /\ ChildOutcome(k).threw)
                           => /\ outcome.threw
                              /\ outcome.error = ChildOutcome(k).error
                              /\ environment = ChildOutcome(k).environment
               /\ \A i, j \in DOMAIN outcome.visited :
                     (/\ outcome.visited[i] # <<>>
                      /\ outcome.visited[j] # <<>>
                      /\ outcome.visited[i][1] < outcome.visited[j][1]) => i < j
               /\ (expr.kind = "Apply" /\ ~ChildOutcome(1).threw
                   /\ ChildOutcome(1).value.tag # "function")
                     => /\ outcome.threw
                        /\ outcome.error = NotAFunction
                        /\ environment = ChildOutcome(1).environment
               /\ (finished /\ n > 0) => environment = ChildOutcome(n).environment
               /\ (finished /\ expr.kind = "List")
                     => /\ ~outcome.threw
                        /\ outcome.value = Lst([k \in 1..n |-> ChildOutcome(k).value])
               /\ (finished /\ expr.kind = "Apply"
                   /\ ChildOutcome(1).value.tag = "function")
                     => LET result == Call(ChildOutcome(1).value,
                                           [k \in 1..(n - 1) |-> ChildOutcome(k + 1).value])
                        IN  /\ outcome.threw = result.threw
                            /\ outcome.threw => outcome.error = result.error
                            /\ ~outcome.threw => outcome.value = result.value
               /\ (expr = List(<<Variable(<<"x">>),
                                 BinaryOperator("Assignment", Variable(<<"x">>),
                                                Number(IntNum(4)))>>)
                   /\ before = EmptyEnvironment)
                     => /\ outcome.threw
                        /\ outcome.error = VariableNotDefined
                        /\ environment = before

\* [x := 4, x] against the empty environment resolved to [4, 4].
C18_Witness ==
    /\ op = "resolve"
    /\ expr = List(<<BinaryOperator("Assignment", Variable(<<"x">>),
                                    Number(IntNum(4))),
                     Variable(<<"x">>)>>)
    /\ before = EmptyEnvironment
    /\ outcome.value = Lst(<<IntNum(4), IntNum(4)>>)

(***************************************************************************)
(* C20.  A resolve that fails does not restore the environment: what an    *)
(* assignment wrote before the point of failure stays written in the       *)
(* caller's environment, so that (x := 1) + y against the empty            *)
(* environment fails with the undefined-variable error and leaves x bound  *)
(* to 1; an Assignment whose target is not a Variable fails before its     *)
(* right operand is evaluated and writes nothing.                          *)
(***************************************************************************)
C20_FailureKeepsCompletedAssignments ==
    /\ (/\ op = "resolve" /\ outcome.threw
        /\ expr.kind \in {"Addition", "And", "Or"}
        /\ expr.left_expression.kind = "Assignment"
        /\ expr.left_expression.left_expression.kind = "Variable"
        /\ ~LeftOutcome.threw)
            => LET name == expr.left_expression.left_expression.variable
               IN  /\ Visited(<<2>>)
                   /\ outcome.error = RightOutcome.error
                   /\ HasOwnProperty(environment, name)
                   /\ environment[name] = LeftOutcome.value
                   /\ environment = RightOutcome.environment
                   /\ \A key \in DOMAIN before \ {name} :
                         HasOwnProperty(environment, key)
                         /\ environment[key] = before[key]
    /\ (/\ op = "resolve"
        /\ expr = BinaryOperator("Addition",
                     BinaryOperator("Assignment", Variable(<<"x">>),
                                    Number(IntNum(MaxNum))),
                     Variable(<<"y">>))
        /\ before = EmptyEnvironment)
            => /\ outcome.threw
               /\ outcome.error = VariableNotDefined
               /\ environment = Put(EmptyEnvironment, <<"x">>, IntNum(MaxNum))
    /\ (/\ op = "resolve" /\ expr.kind = "Assignment"
        /\ expr.left_expression.kind # "Variable")
            => /\ outcome.threw
               /\ outcome.visited = <<<<>>>>
               /\ environment = before

\* (x := MaxNum) + y against the empty environment failed and left x bound.
C20_Witness ==
    /\ op = "resolve"
    /\ expr = BinaryOperator("Addition",
                 BinaryOperator("Assignment", Variable(<<"x">>),
                                Number(IntNum(MaxNum))),
                 Variable(<<"y">>))
    /\ before = EmptyEnvironment
    /\ outcome.threw
    /\ outcome.error = VariableNotDefined
    /\ DOMAIN environment = {<<"x">>}
    /\ environment[<<"x">>] = IntNum(MaxNum)

=============================================================================
